---- MODULE Spec2Model ----
(***************************************************************************)
(* A model of devEvents: the Event and Booking mongoose schemas with their *)
(* pre-save hooks (database/event.model.ts, database/booking.model.ts),    *)
(* the cached database connection (connectToDatabase) and the event        *)
(* details page (EventDetailsPage).                                        *)
(*                                                                         *)
(* JavaScript strings are modelled as sequences of UTF-16 code units, so   *)
(* that trimming, case mapping, regular expressions and formatting are     *)
(* computed character by character as the code computes them.              *)
(***************************************************************************)
EXTENDS Integers, Sequences, FiniteSets, TLC

(***************************************************************************)
(* Bounds of the model.                                                    *)
(***************************************************************************)
\* longest title given to createSlug in SpecSlug
MaxTitleLen == 4
\* longest time string given to normalizeTime in SpecTime
MaxTimeLen == 5

(***************************************************************************)
(* Characters and strings.                                                 *)
(***************************************************************************)
\* A character is its UTF-16 code unit, the element of a JavaScript string:
\* 32 is the space, 45 the dash "-", 48..57 the digits "0".."9", 58 the
\* colon ":", 65..90 the letters "A".."Z" and 97..122 the letters "a".."z".
\* The characters JavaScript's \s and String.prototype.trim treat as white
\* space, the WhiteSpace and LineTerminator code points of ECMAScript:
\* TAB, LF, VT, FF, CR, SPACE, NO-BREAK SPACE, OGHAM SPACE MARK, the spaces
\* U+2000..U+200A, LINE and PARAGRAPH SEPARATOR, NARROW NO-BREAK SPACE,
\* MEDIUM MATHEMATICAL SPACE, IDEOGRAPHIC SPACE and the BYTE ORDER MARK.
Whitespace ==
  {9, 10, 11, 12, 13, 32, 160, 5760} \cup (8192..8202)
    \cup {8232, 8233, 8239, 8287, 12288, 65279}

\* "0".."9"
Digits == 48..57

\* "a".."z"
LowerLetters == 97..122

\* The letters with a lower case of one code point, from the Unicode
\* Character Database (version 17.0):
\* <<first, last, step, delta>> stands for the code points
\* first, first + step, .., last, each with the lower case delta further on.
LowerCaseRuns ==
  {<<65, 90, 1, 32>>, <<192, 214, 1, 32>>, <<216, 222, 1, 32>>, <<256, 302, 2, 1>>,
   <<306, 310, 2, 1>>, <<313, 327, 2, 1>>, <<330, 374, 2, 1>>, <<376, 376, 1, -121>>,
   <<377, 381, 2, 1>>, <<385, 385, 1, 210>>, <<386, 388, 2, 1>>, <<390, 390, 1, 206>>,
   <<391, 391, 1, 1>>, <<393, 394, 1, 205>>, <<395, 395, 1, 1>>, <<398, 398, 1, 79>>,
   <<399, 399, 1, 202>>, <<400, 400, 1, 203>>, <<401, 401, 1, 1>>, <<403, 403, 1, 205>>,
   <<404, 404, 1, 207>>, <<406, 406, 1, 211>>, <<407, 407, 1, 209>>, <<408, 408, 1, 1>>,
   <<412, 412, 1, 211>>, <<413, 413, 1, 213>>, <<415, 415, 1, 214>>, <<416, 420, 2, 1>>,
   <<422, 422, 1, 218>>, <<423, 423, 1, 1>>, <<425, 425, 1, 218>>, <<428, 428, 1, 1>>,
   <<430, 430, 1, 218>>, <<431, 431, 1, 1>>, <<433, 434, 1, 217>>, <<435, 437, 2, 1>>,
   <<439, 439, 1, 219>>, <<440, 440, 1, 1>>, <<444, 444, 1, 1>>, <<452, 452, 1, 2>>,
   <<453, 453, 1, 1>>, <<455, 455, 1, 2>>, <<456, 456, 1, 1>>, <<458, 458, 1, 2>>,
   <<459, 475, 2, 1>>, <<478, 494, 2, 1>>, <<497, 497, 1, 2>>, <<498, 500, 2, 1>>,
   <<502, 502, 1, -97>>, <<503, 503, 1, -56>>, <<504, 542, 2, 1>>, <<544, 544, 1, -130>>,
   <<546, 562, 2, 1>>, <<570, 570, 1, 10795>>, <<571, 571, 1, 1>>, <<573, 573, 1, -163>>,
   <<574, 574, 1, 10792>>, <<577, 577, 1, 1>>, <<579, 579, 1, -195>>, <<580, 580, 1, 69>>,
   <<581, 581, 1, 71>>, <<582, 590, 2, 1>>, <<880, 882, 2, 1>>, <<886, 886, 1, 1>>,
   <<895, 895, 1, 116>>, <<902, 902, 1, 38>>, <<904, 906, 1, 37>>, <<908, 908, 1, 64>>,
   <<910, 911, 1, 63>>, <<913, 929, 1, 32>>, <<931, 939, 1, 32>>, <<975, 975, 1, 8>>,
   <<984, 1006, 2, 1>>, <<1012, 1012, 1, -60>>, <<1015, 1015, 1, 1>>, <<1017, 1017, 1, -7>>,
   <<1018, 1018, 1, 1>>, <<1021, 1023, 1, -130>>, <<1024, 1039, 1, 80>>, <<1040, 1071, 1, 32>>,
   <<1120, 1152, 2, 1>>, <<1162, 1214, 2, 1>>, <<1216, 1216, 1, 15>>, <<1217, 1229, 2, 1>>,
   <<1232, 1326, 2, 1>>, <<1329, 1366, 1, 48>>, <<4256, 4293, 1, 7264>>, <<4295, 4295, 1, 7264>>,
   <<4301, 4301, 1, 7264>>, <<5024, 5103, 1, 38864>>, <<5104, 5109, 1, 8>>, <<7305, 7305, 1, 1>>,
   <<7312, 7354, 1, -3008>>, <<7357, 7359, 1, -3008>>, <<7680, 7828, 2, 1>>, <<7838, 7838, 1, -7615>>,
   <<7840, 7934, 2, 1>>, <<7944, 7951, 1, -8>>, <<7960, 7965, 1, -8>>, <<7976, 7983, 1, -8>>,
   <<7992, 7999, 1, -8>>, <<8008, 8013, 1, -8>>, <<8025, 8031, 2, -8>>, <<8040, 8047, 1, -8>>,
   <<8072, 8079, 1, -8>>, <<8088, 8095, 1, -8>>, <<8104, 8111, 1, -8>>, <<8120, 8121, 1, -8>>,
   <<8122, 8123, 1, -74>>, <<8124, 8124, 1, -9>>, <<8136, 8139, 1, -86>>, <<8140, 8140, 1, -9>>,
   <<8152, 8153, 1, -8>>, <<8154, 8155, 1, -100>>, <<8168, 8169, 1, -8>>, <<8170, 8171, 1, -112>>,
   <<8172, 8172, 1, -7>>, <<8184, 8185, 1, -128>>, <<8186, 8187, 1, -126>>, <<8188, 8188, 1, -9>>,
   <<8486, 8486, 1, -7517>>, <<8490, 8490, 1, -8383>>, <<8491, 8491, 1, -8262>>, <<8498, 8498, 1, 28>>,
   <<8544, 8559, 1, 16>>, <<8579, 8579, 1, 1>>, <<9398, 9423, 1, 26>>, <<11264, 11311, 1, 48>>,
   <<11360, 11360, 1, 1>>, <<11362, 11362, 1, -10743>>, <<11363, 11363, 1, -3814>>, <<11364, 11364, 1, -10727>>,
   <<11367, 11371, 2, 1>>, <<11373, 11373, 1, -10780>>, <<11374, 11374, 1, -10749>>, <<11375, 11375, 1, -10783>>,
   <<11376, 11376, 1, -10782>>, <<11378, 11378, 1, 1>>, <<11381, 11381, 1, 1>>, <<11390, 11391, 1, -10815>>,
   <<11392, 11490, 2, 1>>, <<11499, 11501, 2, 1>>, <<11506, 11506, 1, 1>>, <<42560, 42604, 2, 1>>,
   <<42624, 42650, 2, 1>>, <<42786, 42798, 2, 1>>, <<42802, 42862, 2, 1>>, <<42873, 42875, 2, 1>>,
   <<42877, 42877, 1, -35332>>, <<42878, 42886, 2, 1>>, <<42891, 42891, 1, 1>>, <<42893, 42893, 1, -42280>>,
   <<42896, 42898, 2, 1>>, <<42902, 42920, 2, 1>>, <<42922, 42922, 1, -42308>>, <<42923, 42923, 1, -42319>>,
   <<42924, 42924, 1, -42315>>, <<42925, 42925, 1, -42305>>, <<42926, 42926, 1, -42308>>, <<42928, 42928, 1, -42258>>,
   <<42929, 42929, 1, -42282>>, <<42930, 42930, 1, -42261>>, <<42931, 42931, 1, 928>>, <<42932, 42946, 2, 1>>,
   <<42948, 42948, 1, -48>>, <<42949, 42949, 1, -42307>>, <<42950, 42950, 1, -35384>>, <<42951, 42953, 2, 1>>,
   <<42955, 42955, 1, -42343>>, <<42956, 42970, 2, 1>>, <<42972, 42972, 1, -42561>>, <<42997, 42997, 1, 1>>,
   <<65313, 65338, 1, 32>>, <<66560, 66599, 1, 40>>, <<66736, 66771, 1, 40>>, <<66928, 66964, 2, 39>>,
   <<66929, 66937, 2, 39>>, <<66941, 66953, 2, 39>>, <<66957, 66961, 2, 39>>, <<66965, 66965, 1, 39>>,
   <<68736, 68786, 1, 64>>, <<68944, 68965, 1, 32>>, <<71840, 71871, 1, 32>>, <<93760, 93791, 1, 32>>,
   <<93856, 93880, 1, 27>>, <<125184, 125217, 1, 34>>}

\* The code points with the Cased property (Unicode 17.0), as ranges.
CasedRanges ==
  {<<65, 90>>, <<97, 122>>, <<170, 170>>, <<181, 181>>, <<186, 186>>, <<192, 214>>,
   <<216, 246>>, <<248, 442>>, <<444, 447>>, <<452, 659>>, <<662, 696>>, <<704, 705>>,
   <<736, 740>>, <<837, 837>>, <<880, 883>>, <<886, 887>>, <<890, 893>>, <<895, 895>>,
   <<902, 902>>, <<904, 906>>, <<908, 908>>, <<910, 929>>, <<931, 1013>>, <<1015, 1153>>,
   <<1162, 1327>>, <<1329, 1366>>, <<1376, 1416>>, <<4256, 4293>>, <<4295, 4295>>, <<4301, 4301>>,
   <<4304, 4346>>, <<4348, 4351>>, <<5024, 5109>>, <<5112, 5117>>, <<7296, 7306>>, <<7312, 7354>>,
   <<7357, 7359>>, <<7424, 7615>>, <<7680, 7957>>, <<7960, 7965>>, <<7968, 8005>>, <<8008, 8013>>,
   <<8016, 8023>>, <<8025, 8025>>, <<8027, 8027>>, <<8029, 8029>>, <<8031, 8061>>, <<8064, 8116>>,
   <<8118, 8124>>, <<8126, 8126>>, <<8130, 8132>>, <<8134, 8140>>, <<8144, 8147>>, <<8150, 8155>>,
   <<8160, 8172>>, <<8178, 8180>>, <<8182, 8188>>, <<8305, 8305>>, <<8319, 8319>>, <<8336, 8348>>,
   <<8450, 8450>>, <<8455, 8455>>, <<8458, 8467>>, <<8469, 8469>>, <<8473, 8477>>, <<8484, 8484>>,
   <<8486, 8486>>, <<8488, 8488>>, <<8490, 8493>>, <<8495, 8500>>, <<8505, 8505>>, <<8508, 8511>>,
   <<8517, 8521>>, <<8526, 8526>>, <<8544, 8575>>, <<8579, 8580>>, <<9398, 9449>>, <<11264, 11492>>,
   <<11499, 11502>>, <<11506, 11507>>, <<11520, 11557>>, <<11559, 11559>>, <<11565, 11565>>, <<42560, 42605>>,
   <<42624, 42653>>, <<42786, 42887>>, <<42891, 42894>>, <<42896, 42972>>, <<42993, 42998>>, <<43000, 43002>>,
   <<43824, 43866>>, <<43868, 43881>>, <<43888, 43967>>, <<64256, 64262>>, <<64275, 64279>>, <<65313, 65338>>,
   <<65345, 65370>>, <<66560, 66639>>, <<66736, 66771>>, <<66776, 66811>>, <<66928, 66938>>, <<66940, 66954>>,
   <<66956, 66962>>, <<66964, 66965>>, <<66967, 66977>>, <<66979, 66993>>, <<66995, 67001>>, <<67003, 67004>>,
   <<67456, 67456>>, <<67459, 67461>>, <<67463, 67504>>, <<67506, 67514>>, <<68736, 68786>>, <<68800, 68850>>,
   <<68944, 68965>>, <<68976, 68997>>, <<71840, 71903>>, <<93760, 93823>>, <<93856, 93880>>, <<93883, 93907>>,
   <<119808, 119892>>, <<119894, 119964>>, <<119966, 119967>>, <<119970, 119970>>, <<119973, 119974>>, <<119977, 119980>>,
   <<119982, 119993>>, <<119995, 119995>>, <<119997, 120003>>, <<120005, 120069>>, <<120071, 120074>>, <<120077, 120084>>,
   <<120086, 120092>>, <<120094, 120121>>, <<120123, 120126>>, <<120128, 120132>>, <<120134, 120134>>, <<120138, 120144>>,
   <<120146, 120485>>, <<120488, 120512>>, <<120514, 120538>>, <<120540, 120570>>, <<120572, 120596>>, <<120598, 120628>>,
   <<120630, 120654>>, <<120656, 120686>>, <<120688, 120712>>, <<120714, 120744>>, <<120746, 120770>>, <<120772, 120779>>,
   <<122624, 122633>>, <<122635, 122654>>, <<122661, 122666>>, <<122928, 122989>>, <<125184, 125251>>, <<127280, 127305>>,
   <<127312, 127337>>, <<127344, 127369>>}

\* The code points with the Case_Ignorable property (Unicode 17.0), as ranges.
CaseIgnorableRanges ==
  {<<39, 39>>, <<46, 46>>, <<58, 58>>, <<94, 94>>, <<96, 96>>, <<168, 168>>,
   <<173, 173>>, <<175, 175>>, <<180, 180>>, <<183, 184>>, <<688, 879>>, <<884, 885>>,
   <<890, 890>>, <<900, 901>>, <<903, 903>>, <<1155, 1161>>, <<1369, 1369>>, <<1375, 1375>>,
   <<1425, 1469>>, <<1471, 1471>>, <<1473, 1474>>, <<1476, 1477>>, <<1479, 1479>>, <<1524, 1524>>,
   <<1536, 1541>>, <<1552, 1562>>, <<1564, 1564>>, <<1600, 1600>>, <<1611, 1631>>, <<1648, 1648>>,
   <<1750, 1757>>, <<1759, 1768>>, <<1770, 1773>>, <<1807, 1807>>, <<1809, 1809>>, <<1840, 1866>>,
   <<1958, 1968>>, <<2027, 2037>>, <<2042, 2042>>, <<2045, 2045>>, <<2070, 2093>>, <<2137, 2139>>,
   <<2184, 2184>>, <<2192, 2193>>, <<2199, 2207>>, <<2249, 2306>>, <<2362, 2362>>, <<2364, 2364>>,
   <<2369, 2376>>, <<2381, 2381>>, <<2385, 2391>>, <<2402, 2403>>, <<2417, 2417>>, <<2433, 2433>>,
   <<2492, 2492>>, <<2497, 2500>>, <<2509, 2509>>, <<2530, 2531>>, <<2558, 2558>>, <<2561, 2562>>,
   <<2620, 2620>>, <<2625, 2626>>, <<2631, 2632>>, <<2635, 2637>>, <<2641, 2641>>, <<2672, 2673>>,
   <<2677, 2677>>, <<2689, 2690>>, <<2748, 2748>>, <<2753, 2757>>, <<2759, 2760>>, <<2765, 2765>>,
   <<2786, 2787>>, <<2810, 2815>>, <<2817, 2817>>, <<2876, 2876>>, <<2879, 2879>>, <<2881, 2884>>,
   <<2893, 2893>>, <<2901, 2902>>, <<2914, 2915>>, <<2946, 2946>>, <<3008, 3008>>, <<3021, 3021>>,
   <<3072, 3072>>, <<3076, 3076>>, <<3132, 3132>>, <<3134, 3136>>, <<3142, 3144>>, <<3146, 3149>>,
   <<3157, 3158>>, <<3170, 3171>>, <<3201, 3201>>, <<3260, 3260>>, <<3263, 3263>>, <<3270, 3270>>,
   <<3276, 3277>>, <<3298, 3299>>, <<3328, 3329>>, <<3387, 3388>>, <<3393, 3396>>, <<3405, 3405>>,
   <<3426, 3427>>, <<3457, 3457>>, <<3530, 3530>>, <<3538, 3540>>, <<3542, 3542>>, <<3633, 3633>>,
   <<3636, 3642>>, <<3654, 3662>>, <<3761, 3761>>, <<3764, 3772>>, <<3782, 3782>>, <<3784, 3790>>,
   <<3864, 3865>>, <<3893, 3893>>, <<3895, 3895>>, <<3897, 3897>>, <<3953, 3966>>, <<3968, 3972>>,
   <<3974, 3975>>, <<3981, 3991>>, <<3993, 4028>>, <<4038, 4038>>, <<4141, 4144>>, <<4146, 4151>>,
   <<4153, 4154>>, <<4157, 4158>>, <<4184, 4185>>, <<4190, 4192>>, <<4209, 4212>>, <<4226, 4226>>,
   <<4229, 4230>>, <<4237, 4237>>, <<4253, 4253>>, <<4348, 4348>>, <<4957, 4959>>, <<5906, 5908>>,
   <<5938, 5939>>, <<5970, 5971>>, <<6002, 6003>>, <<6068, 6069>>, <<6071, 6077>>, <<6086, 6086>>,
   <<6089, 6099>>, <<6103, 6103>>, <<6109, 6109>>, <<6155, 6159>>, <<6211, 6211>>, <<6277, 6278>>,
   <<6313, 6313>>, <<6432, 6434>>, <<6439, 6440>>, <<6450, 6450>>, <<6457, 6459>>, <<6679, 6680>>,
   <<6683, 6683>>, <<6742, 6742>>, <<6744, 6750>>, <<6752, 6752>>, <<6754, 6754>>, <<6757, 6764>>,
   <<6771, 6780>>, <<6783, 6783>>, <<6823, 6823>>, <<6832, 6877>>, <<6880, 6891>>, <<6912, 6915>>,
   <<6964, 6964>>, <<6966, 6970>>, <<6972, 6972>>, <<6978, 6978>>, <<7019, 7027>>, <<7040, 7041>>,
   <<7074, 7077>>, <<7080, 7081>>, <<7083, 7085>>, <<7142, 7142>>, <<7144, 7145>>, <<7149, 7149>>,
   <<7151, 7153>>, <<7212, 7219>>, <<7222, 7223>>, <<7288, 7293>>, <<7376, 7378>>, <<7380, 7392>>,
   <<7394, 7400>>, <<7405, 7405>>, <<7412, 7412>>, <<7416, 7417>>, <<7468, 7530>>, <<7544, 7544>>,
   <<7579, 7679>>, <<8125, 8125>>, <<8127, 8129>>, <<8141, 8143>>, <<8157, 8159>>, <<8173, 8175>>,
   <<8189, 8190>>, <<8203, 8207>>, <<8216, 8217>>, <<8228, 8228>>, <<8231, 8231>>, <<8234, 8238>>,
   <<8288, 8292>>, <<8294, 8303>>, <<8305, 8305>>, <<8319, 8319>>, <<8336, 8348>>, <<8400, 8432>>,
   <<11388, 11389>>, <<11503, 11505>>, <<11631, 11631>>, <<11647, 11647>>, <<11744, 11775>>, <<11823, 11823>>,
   <<12293, 12293>>, <<12330, 12333>>, <<12337, 12341>>, <<12347, 12347>>, <<12441, 12446>>, <<12540, 12542>>,
   <<40981, 40981>>, <<42232, 42237>>, <<42508, 42508>>, <<42607, 42610>>, <<42612, 42621>>, <<42623, 42623>>,
   <<42652, 42655>>, <<42736, 42737>>, <<42752, 42785>>, <<42864, 42864>>, <<42888, 42890>>, <<42993, 42996>>,
   <<43000, 43001>>, <<43010, 43010>>, <<43014, 43014>>, <<43019, 43019>>, <<43045, 43046>>, <<43052, 43052>>,
   <<43204, 43205>>, <<43232, 43249>>, <<43263, 43263>>, <<43302, 43309>>, <<43335, 43345>>, <<43392, 43394>>,
   <<43443, 43443>>, <<43446, 43449>>, <<43452, 43453>>, <<43471, 43471>>, <<43493, 43494>>, <<43561, 43566>>,
   <<43569, 43570>>, <<43573, 43574>>, <<43587, 43587>>, <<43596, 43596>>, <<43632, 43632>>, <<43644, 43644>>,
   <<43696, 43696>>, <<43698, 43700>>, <<43703, 43704>>, <<43710, 43711>>, <<43713, 43713>>, <<43741, 43741>>,
   <<43756, 43757>>, <<43763, 43764>>, <<43766, 43766>>, <<43867, 43871>>, <<43881, 43883>>, <<44005, 44005>>,
   <<44008, 44008>>, <<44013, 44013>>, <<64286, 64286>>, <<64434, 64450>>, <<65024, 65039>>, <<65043, 65043>>,
   <<65056, 65071>>, <<65106, 65106>>, <<65109, 65109>>, <<65279, 65279>>, <<65287, 65287>>, <<65294, 65294>>,
   <<65306, 65306>>, <<65342, 65342>>, <<65344, 65344>>, <<65392, 65392>>, <<65438, 65439>>, <<65507, 65507>>,
   <<65529, 65531>>, <<66045, 66045>>, <<66272, 66272>>, <<66422, 66426>>, <<67456, 67461>>, <<67463, 67504>>,
   <<67506, 67514>>, <<68097, 68099>>, <<68101, 68102>>, <<68108, 68111>>, <<68152, 68154>>, <<68159, 68159>>,
   <<68325, 68326>>, <<68900, 68903>>, <<68942, 68942>>, <<68969, 68973>>, <<68975, 68975>>, <<69291, 69292>>,
   <<69317, 69317>>, <<69370, 69375>>, <<69446, 69456>>, <<69506, 69509>>, <<69633, 69633>>, <<69688, 69702>>,
   <<69744, 69744>>, <<69747, 69748>>, <<69759, 69761>>, <<69811, 69814>>, <<69817, 69818>>, <<69821, 69821>>,
   <<69826, 69826>>, <<69837, 69837>>, <<69888, 69890>>, <<69927, 69931>>, <<69933, 69940>>, <<70003, 70003>>,
   <<70016, 70017>>, <<70070, 70078>>, <<70089, 70092>>, <<70095, 70095>>, <<70191, 70193>>, <<70196, 70196>>,
   <<70198, 70199>>, <<70206, 70206>>, <<70209, 70209>>, <<70367, 70367>>, <<70371, 70378>>, <<70400, 70401>>,
   <<70459, 70460>>, <<70464, 70464>>, <<70502, 70508>>, <<70512, 70516>>, <<70587, 70592>>, <<70606, 70606>>,
   <<70608, 70608>>, <<70610, 70610>>, <<70625, 70626>>, <<70712, 70719>>, <<70722, 70724>>, <<70726, 70726>>,
   <<70750, 70750>>, <<70835, 70840>>, <<70842, 70842>>, <<70847, 70848>>, <<70850, 70851>>, <<71090, 71093>>,
   <<71100, 71101>>, <<71103, 71104>>, <<71132, 71133>>, <<71219, 71226>>, <<71229, 71229>>, <<71231, 71232>>,
   <<71339, 71339>>, <<71341, 71341>>, <<71344, 71349>>, <<71351, 71351>>, <<71453, 71453>>, <<71455, 71455>>,
   <<71458, 71461>>, <<71463, 71467>>, <<71727, 71735>>, <<71737, 71738>>, <<71995, 71996>>, <<71998, 71998>>,
   <<72003, 72003>>, <<72148, 72151>>, <<72154, 72155>>, <<72160, 72160>>, <<72193, 72202>>, <<72243, 72248>>,
   <<72251, 72254>>, <<72263, 72263>>, <<72273, 72278>>, <<72281, 72283>>, <<72330, 72342>>, <<72344, 72345>>,
   <<72544, 72544>>, <<72546, 72548>>, <<72550, 72550>>, <<72752, 72758>>, <<72760, 72765>>, <<72767, 72767>>,
   <<72850, 72871>>, <<72874, 72880>>, <<72882, 72883>>, <<72885, 72886>>, <<73009, 73014>>, <<73018, 73018>>,
   <<73020, 73021>>, <<73023, 73029>>, <<73031, 73031>>, <<73104, 73105>>, <<73109, 73109>>, <<73111, 73111>>,
   <<73177, 73177>>, <<73459, 73460>>, <<73472, 73473>>, <<73526, 73530>>, <<73536, 73536>>, <<73538, 73538>>,
   <<73562, 73562>>, <<78896, 78912>>, <<78919, 78933>>, <<90398, 90409>>, <<90413, 90415>>, <<92912, 92916>>,
   <<92976, 92982>>, <<92992, 92995>>, <<93504, 93506>>, <<93547, 93548>>, <<94031, 94031>>, <<94095, 94111>>,
   <<94176, 94177>>, <<94179, 94180>>, <<94194, 94195>>, <<110576, 110579>>, <<110581, 110587>>, <<110589, 110590>>,
   <<113821, 113822>>, <<113824, 113827>>, <<118528, 118573>>, <<118576, 118598>>, <<119143, 119145>>, <<119155, 119170>>,
   <<119173, 119179>>, <<119210, 119213>>, <<119362, 119364>>, <<121344, 121398>>, <<121403, 121452>>, <<121461, 121461>>,
   <<121476, 121476>>, <<121499, 121503>>, <<121505, 121519>>, <<122880, 122886>>, <<122888, 122904>>, <<122907, 122913>>,
   <<122915, 122916>>, <<122918, 122922>>, <<122928, 122989>>, <<123023, 123023>>, <<123184, 123197>>, <<123566, 123566>>,
   <<123628, 123631>>, <<124139, 124143>>, <<124398, 124399>>, <<124643, 124643>>, <<124646, 124646>>, <<124654, 124655>>,
   <<124661, 124661>>, <<124671, 124671>>, <<125136, 125142>>, <<125252, 125259>>, <<127995, 127999>>, <<917505, 917505>>,
   <<917536, 917631>>, <<917760, 917999>>}

InRanges(c, ranges) == \E r \in ranges : r[1] <= c /\ c <= r[2]

CasedLetter(c) == InRanges(c, CasedRanges)

CaseIgnorable(c) == InRanges(c, CaseIgnorableRanges)

InRun(c, r) == r[1] <= c /\ c <= r[2] /\ (c - r[1]) % r[3] = 0

\* the lower case of a code point other than U+0130 and U+03A3 in final place
LowerPoint(c) ==
  IF \E r \in LowerCaseRuns : InRun(c, r)
  THEN c + (CHOOSE r \in LowerCaseRuns : InRun(c, r))[4]
  ELSE c

\* a lead surrogate followed by a trail surrogate is one code point
PairAt(s, i) ==
  i < Len(s) /\ s[i] \in 55296..56319 /\ s[i + 1] \in 56320..57343

CodePointAt(s, i) ==
  IF PairAt(s, i)
  THEN 65536 + (s[i] - 55296) * 1024 + (s[i + 1] - 56320)
  ELSE s[i]

RECURSIVE CodePointsFrom(_, _)
CodePointsFrom(s, i) ==
  IF i > Len(s) THEN <<>>
  ELSE <<CodePointAt(s, i)>>
         \o CodePointsFrom(s, IF PairAt(s, i) THEN i + 2 ELSE i + 1)

\* the code points of a string; a surrogate without its pair stands alone
CodePoints(s) == CodePointsFrom(s, 1)

\* the code units of one code point
CodeUnits(c) ==
  IF c < 65536 THEN <<c>>
  ELSE <<55296 + ((c - 65536) \div 1024), 56320 + ((c - 65536) % 1024)>>

\* the nearest code point before place i that is not case-ignorable is a
\* cased letter
AfterCased(cps, i) ==
  \E j \in 1..(i - 1) :
    /\ CasedLetter(cps[j]) /\ ~CaseIgnorable(cps[j])
    /\ \A k \in (j + 1)..(i - 1) : CaseIgnorable(cps[k])

\* the nearest code point after place i that is not case-ignorable is a cased
\* letter
BeforeCased(cps, i) ==
  \E j \in (i + 1)..Len(cps) :
    /\ CasedLetter(cps[j]) /\ ~CaseIgnorable(cps[j])
    /\ \A k \in (i + 1)..(j - 1) : CaseIgnorable(cps[k])

\* the Final_Sigma condition of the Unicode Standard
FinalSigma(cps, i) == AfterCased(cps, i) /\ ~BeforeCased(cps, i)

\* String.prototype.toLowerCase on the code point at place i: the code points
\* it becomes.  LATIN CAPITAL LETTER I WITH DOT ABOVE (304) becomes "i" and
\* COMBINING DOT ABOVE (775); GREEK CAPITAL LETTER SIGMA (931) becomes the
\* final sigma (962) at the end of a word and the small sigma (963) elsewhere.
LowerChar(cps, i) ==
  IF cps[i] = 304 THEN <<105, 775>>
  ELSE IF cps[i] = 931 THEN IF FinalSigma(cps, i) THEN <<962>> ELSE <<963>>
  ELSE <<LowerPoint(cps[i])>>

RECURSIVE LowerFrom(_, _)
LowerFrom(cps, i) ==
  IF i > Len(cps) THEN <<>>
  ELSE LowerChar(cps, i) \o LowerFrom(cps, i + 1)

RECURSIVE UnitsOf(_)
UnitsOf(cps) ==
  IF cps = <<>> THEN <<>> ELSE CodeUnits(Head(cps)) \o UnitsOf(Tail(cps))

\* String.prototype.toLowerCase
ToLowerCase(s) == UnitsOf(LowerFrom(CodePoints(s), 1))

RECURSIVE TrimStart(_)
\* drops the leading white space
TrimStart(s) ==
  IF s # <<>> /\ Head(s) \in Whitespace THEN TrimStart(Tail(s)) ELSE s

RECURSIVE TrimEnd(_)
\* drops the trailing white space
TrimEnd(s) ==
  IF s # <<>> /\ s[Len(s)] \in Whitespace
  THEN TrimEnd(SubSeq(s, 1, Len(s) - 1))
  ELSE s

\* String.prototype.trim
Trim(s) == TrimEnd(TrimStart(s))

\* the strings over alphabet of length at most n
StringsUpTo(alphabet, n) == UNION {[1..k -> alphabet] : k \in 0..n}

(***************************************************************************)
(* createSlug (event.model.ts).                                            *)
(***************************************************************************)
\* a character the class [a-z0-9\s-] matches
SlugClassChar(c) == c \in LowerLetters \cup Digits \cup Whitespace \cup {45}

\* .replace(/[^a-z0-9\s-]/g, "")
RemoveNonSlugChars(s) == SelectSeq(s, SlugClassChar)

RECURSIVE ReplaceSpaceRuns(_)
\* .replace(/\s+/g, "-"): every maximal run of white space becomes one dash
ReplaceSpaceRuns(s) ==
  IF s = <<>> THEN <<>>
  ELSE IF Head(s) \in Whitespace
       THEN <<45>> \o ReplaceSpaceRuns(TrimStart(s))
       ELSE <<Head(s)>> \o ReplaceSpaceRuns(Tail(s))

RECURSIVE CollapseFirstPairOnly(_)
\* a collapse that only merges the first pair of every run
CollapseFirstPairOnly(s) ==
  IF Len(s) < 2 THEN s
  ELSE IF s[1] = 45 /\ s[2] = 45
       THEN <<45>> \o CollapseFirstPairOnly(Tail(Tail(s)))
       ELSE <<Head(s)>> \o CollapseFirstPairOnly(Tail(s))

RECURSIVE CollapseDashes(_)
\* .replace(/-+/g, "-"): every maximal run of dashes becomes one dash
CollapseDashes(s) ==
  IF Len(s) < 2 THEN s
  ELSE IF s[1] = 45 /\ s[2] = 45
       THEN CollapseDashes(Tail(s))
       ELSE <<Head(s)>> \o CollapseDashes(Tail(s))

\* .replace(/^-|-$/g, ""): one dash off the start, one dash off the end
TrimDashes(s) ==
  LET a == IF s # <<>> /\ Head(s) = 45 THEN Tail(s) ELSE s
  IN  IF a # <<>> /\ a[Len(a)] = 45 THEN SubSeq(a, 1, Len(a) - 1) ELSE a

createSlug(title) ==
  TrimDashes(CollapseDashes(ReplaceSpaceRuns(
    RemoveNonSlugChars(Trim(ToLowerCase(title))))))

(***************************************************************************)
(* normalizeTime (event.model.ts).                                         *)
(***************************************************************************)
\* the value of a decimal digit, and the digit of a value: "0" is 48
DigitValue(c) == c - 48

DigitChar(n) == n + 48

RECURSIVE ToNumber(_)
\* Number(s) of a string of decimal digits
ToNumber(s) ==
  IF s = <<>> THEN 0
  ELSE 10 * ToNumber(SubSeq(s, 1, Len(s) - 1)) + DigitValue(s[Len(s)])

RECURSIVE NumberToString(_)
\* Number.prototype.toString of a natural number
NumberToString(n) ==
  IF n < 10 THEN <<DigitChar(n)>>
  ELSE NumberToString(n \div 10) \o <<DigitChar(n % 10)>>

RECURSIVE PadStart(_, _, _)
\* String.prototype.padStart with a one-character filler
PadStart(s, n, c) == IF Len(s) >= n THEN s ELSE PadStart(<<c>> \o s, n, c)

AllDigits(s) == \A i \in 1..Len(s) : s[i] \in Digits

\* trimmed.match(/^(?<hour>\d{1,2}):(?<minute>\d{2})$/): the groups, or no match
TimeMatch(trimmed) ==
  LET n == Len(trimmed)
  IN  IF /\ n \in {4, 5}
         /\ trimmed[n - 2] = 58
         /\ AllDigits(SubSeq(trimmed, 1, n - 3))
         /\ AllDigits(SubSeq(trimmed, n - 1, n))
      THEN [matched |-> TRUE,
            hour    |-> SubSeq(trimmed, 1, n - 3),
            minute  |-> SubSeq(trimmed, n - 1, n)]
      ELSE [matched |-> FALSE, hour |-> <<>>, minute |-> <<>>]

\* hour < 0 || hour > 23 || minute < 0 || minute > 59, with a wrong hour limit
TimeOutOfRangeUpTo24(hour, minute) ==
  hour < 0 \/ hour > 24 \/ minute < 0 \/ minute > 59

\* hour < 0 || hour > 23 || minute < 0 || minute > 59
TimeOutOfRange(hour, minute) ==
  hour < 0 \/ hour > 23 \/ minute < 0 \/ minute > 59

\* a returned value, or a thrown Error with its message
Returned(v) == [ok |-> TRUE, value |-> v, error |-> ""]
Thrown(msg) == [ok |-> FALSE, value |-> <<>>, error |-> msg]

normalizeTime(time) ==
  LET trimmed == Trim(time)
      match   == TimeMatch(trimmed)
      hour    == ToNumber(match.hour)
      minute  == ToNumber(match.minute)
  IN  IF ~match.matched
      THEN Thrown("Invalid event time. Expected format HH:mm (24-hour)")
      ELSE IF TimeOutOfRange(hour, minute)
           THEN Thrown("Invalid event time range")
           ELSE Returned(PadStart(NumberToString(hour), 2, 48) \o <<58>>
                         \o PadStart(NumberToString(minute), 2, 48))

(***************************************************************************)
(* normalizeDate (event.model.ts).  new Date(date) of a string is          *)
(* Date.parse, modelled as the engine of Node.js computes it: the text is  *)
(* cut into tokens, read as an ECMAScript date-time string                 *)
(* [+-yy]yyyy[-MM[-DD]][THH:mm[:ss[.sss]][Z|+-hh:mm]] as far as that goes, *)
(* and from the first token that does not fit by the legacy rules          *)
(* (numbers, month names, time-zone names and am/pm in any order).  A      *)
(* date-only ECMAScript string is UTC; a text with neither Z nor an offset *)
(* is local time, so its UTC date depends on the time zone of the process, *)
(* the tz parameter, with the offsets from UTC the zone has had.           *)
(***************************************************************************)
None == -1

\* LF, CR, LINE SEPARATOR and PARAGRAPH SEPARATOR
LineTerminators == {10, 13, 8232, 8233}

\* the code units at or above "A" (65) that are not WhiteSpace code points make
\* words: the letters, the punctuation above "Z" and every other character
\* outside ASCII, the LINE and PARAGRAPH SEPARATOR among them (the line
\* terminators are skipped as white space only where no word starts)
WordChars == (65..65535) \ (Whitespace \ LineTerminators)

NumberToken(n, len) == [kind |-> "number", n |-> n, len |-> len, c |-> 0]
SymbolToken(c)      == [kind |-> "symbol", n |-> 0, len |-> 1, c |-> c]
KeywordToken(type, value, len) ==
  [kind |-> type, n |-> value, len |-> len, c |-> 0]
WhiteSpaceToken(len) == [kind |-> "space", n |-> 0, len |-> len, c |-> 0]
UnknownToken        == [kind |-> "unknown", n |-> 0, len |-> 1, c |-> 0]
EndOfInput          == [kind |-> "end", n |-> 0, len |-> 0, c |-> 0]

\* the keyword table: the prefix of at most three letters, the type and the
\* value of each keyword
KeywordTable ==
  { [pre |-> <<106, 97, 110>>,   type |-> "month", value |-> 1],  \* jan
    [pre |-> <<102, 101, 98>>,   type |-> "month", value |-> 2],  \* feb
    [pre |-> <<109, 97, 114>>,   type |-> "month", value |-> 3],  \* mar
    [pre |-> <<97, 112, 114>>,   type |-> "month", value |-> 4],  \* apr
    [pre |-> <<109, 97, 121>>,   type |-> "month", value |-> 5],  \* may
    [pre |-> <<106, 117, 110>>,  type |-> "month", value |-> 6],  \* jun
    [pre |-> <<106, 117, 108>>,  type |-> "month", value |-> 7],  \* jul
    [pre |-> <<97, 117, 103>>,   type |-> "month", value |-> 8],  \* aug
    [pre |-> <<115, 101, 112>>,  type |-> "month", value |-> 9],  \* sep
    [pre |-> <<111, 99, 116>>,   type |-> "month", value |-> 10],  \* oct
    [pre |-> <<110, 111, 118>>,  type |-> "month", value |-> 11],  \* nov
    [pre |-> <<100, 101, 99>>,   type |-> "month", value |-> 12],  \* dec
    [pre |-> <<97, 109>>,        type |-> "ampm",  value |-> 0],  \* am
    [pre |-> <<112, 109>>,       type |-> "ampm",  value |-> 12],  \* pm
    [pre |-> <<117, 116>>,       type |-> "zone",  value |-> 0],  \* ut
    [pre |-> <<117, 116, 99>>,   type |-> "zone",  value |-> 0],  \* utc
    [pre |-> <<122>>,            type |-> "zone",  value |-> 0],  \* z
    [pre |-> <<103, 109, 116>>,  type |-> "zone",  value |-> 0],  \* gmt
    [pre |-> <<99, 100, 116>>,   type |-> "zone",  value |-> -5],  \* cdt
    [pre |-> <<99, 115, 116>>,   type |-> "zone",  value |-> -6],  \* cst
    [pre |-> <<101, 100, 116>>,  type |-> "zone",  value |-> -4],  \* edt
    [pre |-> <<101, 115, 116>>,  type |-> "zone",  value |-> -5],  \* est
    [pre |-> <<109, 100, 116>>,  type |-> "zone",  value |-> -6],  \* mdt
    [pre |-> <<109, 115, 116>>,  type |-> "zone",  value |-> -7],  \* mst
    [pre |-> <<112, 100, 116>>,  type |-> "zone",  value |-> -7],  \* pdt
    [pre |-> <<112, 115, 116>>,  type |-> "zone",  value |-> -8],  \* pst
    [pre |-> <<116>>,            type |-> "tsep",  value |-> 0] }  \* t

\* AsciiAlphaToLower of one character of a word: c | 0x20, the code unit
\* with the bit of 32 set
AsciiLower(c) == IF (c \div 32) % 2 = 0 THEN c + 32 ELSE c

\* the keyword of a word: its first three characters in lower case must be
\* an entry, and only a month name may be longer than its entry
Lookup(word) ==
  LET n == IF Len(word) < 3 THEN Len(word) ELSE 3
      prefix == [i \in 1..n |-> AsciiLower(word[i])]
      hits == {k \in KeywordTable :
                 /\ k.pre = prefix
                 /\ (Len(word) <= 3 \/ k.type = "month")}
  IN  IF hits # {}
      THEN LET k == CHOOSE h \in hits : TRUE
           IN  KeywordToken(k.type, k.value, Len(word))
      ELSE KeywordToken("word", 0, Len(word))

RECURSIVE RunLength(_, _)
\* the number of leading characters of s that are in set
RunLength(s, set) ==
  IF s # <<>> /\ Head(s) \in set THEN 1 + RunLength(Tail(s), set) ELSE 0

RECURSIVE DropZeros(_)
DropZeros(s) == IF s # <<>> /\ Head(s) = 48 THEN DropZeros(Tail(s)) ELSE s

\* ReadUnsignedNumeral: leading zeros are skipped and at most nine digits count
ReadUnsignedNumeral(digits) ==
  LET d == DropZeros(digits)
  IN  ToNumber(SubSeq(d, 1, IF Len(d) < 9 THEN Len(d) ELSE 9))

RECURSIVE SkipParentheses(_, _, _)
\* the characters taken from an opening parenthesis at s[i] up to the one
\* that closes it, or to the end of the text
SkipParentheses(s, i, balance) ==
  LET b == IF s[i] = 41 THEN balance - 1
           ELSE IF s[i] = 40 THEN balance + 1 ELSE balance
  IN  IF b > 0 /\ i < Len(s) THEN 1 + SkipParentheses(s, i + 1, b) ELSE 1

RECURSIVE Scan(_)
\* the tokens of a text without the code unit 0
Scan(s) ==
  IF s = <<>> THEN <<>>
  ELSE LET c == Head(s)
           take(k, token) == <<token>> \o Scan(SubSeq(s, k + 1, Len(s)))
       IN  IF c \in Digits
           THEN LET k == RunLength(s, Digits)
                IN  take(k, NumberToken(ReadUnsignedNumeral(SubSeq(s, 1, k)), k))
           ELSE IF c \in {58, 45, 43, 46, 41} THEN take(1, SymbolToken(c))
           ELSE IF c \in WordChars
           THEN LET k == RunLength(s, WordChars)
                IN  take(k, Lookup(SubSeq(s, 1, k)))
           ELSE IF c \in Whitespace THEN take(1, WhiteSpaceToken(1))
           ELSE IF c = 40 THEN take(SkipParentheses(s, 1, 0), UnknownToken)
           ELSE take(1, UnknownToken)

\* the tokens of the text: the tokenizer takes the code unit 0 for the end of
\* the input, so the text is read up to its first code unit 0
Tokenize(s) == Scan(SubSeq(s, 1, RunLength(s, 1..65535)))

\* the token at position i, the end of input past the last one
Tok(ts, i) == IF i <= Len(ts) THEN ts[i] ELSE EndOfInput

IsSymbol(token, c) == token.kind = "symbol" /\ token.c = c
IsAsciiSign(token) == IsSymbol(token, 43) \/ IsSymbol(token, 45)
IsFixedNumber(token, len) == token.kind = "number" /\ token.len = len
IsKeywordZ(token) == token.kind = "zone" /\ token.len = 1 /\ token.n = 0
IsKeyword(token) == token.kind \in {"month", "ampm", "zone", "tsep", "word"}

IsMonth(n)  == n \in 1..12
IsDay(n)    == n \in 1..31
IsHour(n)   == n \in 0..23
IsHour12(n) == n \in 0..12
IsMinute(n) == n \in 0..59
IsSecond(n) == n \in 0..59
IsMillisecond(n) == n \in 0..999

\* the day, time and time-zone composers before anything is read
EmptyComposers ==
  [day |-> <<>>, named |-> None, iso |-> FALSE, time |-> <<>>,
   hourOffset |-> None, tzSign |-> 0, tzHour |-> None, tzMinute |-> None,
   failed |-> FALSE]

Failed == [EmptyComposers EXCEPT !.failed = TRUE]

DayAdd(st, n) == [st EXCEPT !.day = Append(@, n)]

\* TimeZoneComposer::Set
TzSet(st, hours) ==
  [st EXCEPT !.tzSign = IF hours < 0 THEN -1 ELSE 1,
             !.tzHour = IF hours < 0 THEN -hours ELSE hours,
             !.tzMinute = 0]

TzIsUTC(st) == st.tzHour = 0 /\ st.tzMinute = 0
TzIsExpecting(st, n) == st.tzHour # None /\ st.tzMinute = None /\ IsMinute(n)

TimeIsExpecting(st, n) ==
  \/ Len(st.time) = 1 /\ IsMinute(n)
  \/ Len(st.time) = 2 /\ IsSecond(n)
  \/ Len(st.time) = 3 /\ IsMillisecond(n)

RECURSIVE PadZeros(_)
PadZeros(t) == IF Len(t) < 4 THEN PadZeros(Append(t, 0)) ELSE t

\* TimeComposer::AddFinal
TimeAddFinal(t, n) == IF Len(t) < 4 THEN PadZeros(Append(t, n)) ELSE t

RECURSIVE PowerOfTen(_)
PowerOfTen(k) == IF k = 0 THEN 1 ELSE 10 * PowerOfTen(k - 1)

\* ReadMilliseconds: the first three digits of the fraction
ReadMilliseconds(token) ==
  LET len == IF token.len > 9 THEN 9 ELSE token.len
  IN  IF len > 3 THEN token.n \div PowerOfTen(len - 3)
      ELSE IF len = 1 THEN token.n * 100
      ELSE IF len = 2 THEN token.n * 10
      ELSE token.n

\* the optional time-zone designator of an ECMAScript date-time string, and
\* the end of the text after it
ES5Zone(ts, st, i) ==
  LET token == Tok(ts, i)
      ended(s, j) == IF Tok(ts, j).kind = "end"
                     THEN [s EXCEPT !.iso = TRUE] ELSE Failed
  IN  IF IsKeywordZ(token) THEN ended(TzSet(st, 0), i + 1)
      ELSE IF IsAsciiSign(token)
      THEN LET signed == [st EXCEPT !.tzSign = IF token.c = 43 THEN 1 ELSE -1]
               a == Tok(ts, i + 1)
               b == Tok(ts, i + 3)
           IN  IF IsFixedNumber(a, 4)
               THEN IF ~IsHour(a.n \div 100) \/ ~IsMinute(a.n % 100) THEN Failed
                    ELSE ended([signed EXCEPT !.tzHour = a.n \div 100,
                                              !.tzMinute = a.n % 100], i + 2)
               ELSE IF ~IsFixedNumber(a, 2) \/ ~IsHour(a.n) THEN Failed
               ELSE IF ~IsSymbol(Tok(ts, i + 2), 58) THEN Failed
               ELSE IF ~IsFixedNumber(b, 2) \/ ~IsMinute(b.n) THEN Failed
               ELSE ended([signed EXCEPT !.tzHour = a.n, !.tzMinute = b.n], i + 4)
      ELSE ended(st, i)

\* the time of an ECMAScript date-time string after its T: HH:mm[:ss[.sss]]
ES5Time(ts, st, i) ==
  LET h  == Tok(ts, i)
      m  == Tok(ts, i + 2)
      s  == Tok(ts, i + 4)
      ms == Tok(ts, i + 6)
      hourIs24 == h.n = 24
  IN  IF ~IsFixedNumber(h, 2) \/ h.n \notin 0..24 THEN Failed
      ELSE IF ~IsSymbol(Tok(ts, i + 1), 58) THEN Failed
      ELSE IF ~IsFixedNumber(m, 2) \/ ~IsMinute(m.n) \/ (hourIs24 /\ m.n > 0)
      THEN Failed
      ELSE IF ~IsSymbol(Tok(ts, i + 3), 58)
      THEN ES5Zone(ts, [st EXCEPT !.time = <<h.n, m.n>>], i + 3)
      ELSE IF ~IsFixedNumber(s, 2) \/ ~IsSecond(s.n) \/ (hourIs24 /\ s.n > 0)
      THEN Failed
      ELSE IF ~IsSymbol(Tok(ts, i + 5), 46)
      THEN ES5Zone(ts, [st EXCEPT !.time = <<h.n, m.n, s.n>>], i + 5)
      ELSE IF ms.kind # "number" \/ (hourIs24 /\ ms.n > 0) THEN Failed
      ELSE ES5Zone(ts, [st EXCEPT !.time = <<h.n, m.n, s.n, ReadMilliseconds(ms)>>],
                   i + 7)

\* what ParseES5DateTime leaves: the composers, and the token the legacy
\* rules go on from (past the last token when the whole text was read)
Handled(st, i) == [st |-> st, next |-> i]

\* the rest of an ECMAScript string after its date: nothing, or T and a time
ES5AfterDate(ts, st, i) ==
  IF Tok(ts, i).kind = "tsep" THEN Handled(ES5Time(ts, st, i + 1), Len(ts) + 1)
  ELSE IF Tok(ts, i).kind = "end"
  THEN Handled([TzSet(st, 0) EXCEPT !.iso = TRUE], i)
  ELSE Handled(st, i)

\* [-MM[-DD]] after the year
ES5MonthDay(ts, st, i) ==
  LET m == Tok(ts, i + 1)
      d == Tok(ts, i + 3)
  IN  IF ~IsSymbol(Tok(ts, i), 45) THEN ES5AfterDate(ts, st, i)
      ELSE IF ~IsFixedNumber(m, 2) \/ ~IsMonth(m.n) THEN Handled(st, i + 1)
      ELSE IF ~IsSymbol(Tok(ts, i + 2), 45)
      THEN ES5AfterDate(ts, DayAdd(st, m.n), i + 2)
      ELSE IF ~IsFixedNumber(d, 2) \/ ~IsDay(d.n)
      THEN Handled(DayAdd(st, m.n), i + 3)
      ELSE ES5AfterDate(ts, DayAdd(DayAdd(st, m.n), d.n), i + 4)

\* ParseES5DateTime: the year, signed with six digits or plain with four
ParseES5DateTime(ts) ==
  LET a == Tok(ts, 1)
      b == Tok(ts, 2)
  IN  IF IsAsciiSign(a)
      THEN IF ~IsFixedNumber(b, 6) THEN Handled(EmptyComposers, 1)
           ELSE IF a.c = 45 /\ b.n = 0 THEN Handled(EmptyComposers, 3)
           ELSE ES5MonthDay(ts, DayAdd(EmptyComposers,
                                       IF a.c = 45 THEN -b.n ELSE b.n), 3)
      ELSE IF IsFixedNumber(a, 4)
      THEN ES5MonthDay(ts, DayAdd(EmptyComposers, a.n), 2)
      ELSE Handled(EmptyComposers, 1)

RECURSIVE LegacyParse(_, _, _, _)
\* the legacy rules from token i on; hasNum: a number has been read
LegacyParse(ts, st, i, hasNum) ==
  LET token == Tok(ts, i)
      peek  == Tok(ts, i + 1)
      n     == token.n
  IN
  IF token.kind = "end" \/ st.failed THEN st
  ELSE IF token.kind = "number"
  THEN IF IsSymbol(peek, 58)
       THEN IF IsSymbol(Tok(ts, i + 2), 58)
            THEN IF st.time # <<>> THEN Failed
                 ELSE LegacyParse(ts, [st EXCEPT !.time = <<n, 0>>], i + 3, TRUE)
            ELSE IF Len(st.time) >= 4 THEN Failed
            ELSE LegacyParse(ts, [st EXCEPT !.time = Append(@, n)],
                             IF IsSymbol(Tok(ts, i + 2), 46) THEN i + 3 ELSE i + 2,
                             TRUE)
       ELSE LET dot == IsSymbol(peek, 46)
                j   == IF dot THEN i + 2 ELSE i + 1
                after == Tok(ts, j)
            IN  IF dot /\ TimeIsExpecting(st, n)
                THEN IF after.kind # "number" THEN Failed
                     ELSE LegacyParse(ts,
                            [st EXCEPT !.time = TimeAddFinal(Append(@, n),
                                                  ReadMilliseconds(after))],
                            j + 1, TRUE)
                ELSE IF TzIsExpecting(st, n)
                THEN LegacyParse(ts, [st EXCEPT !.tzMinute = n], j, TRUE)
                ELSE IF TimeIsExpecting(st, n)
                THEN IF ~(\/ after.kind \in {"end", "space"}
                          \/ IsKeywordZ(after)
                          \/ IsAsciiSign(after))
                     THEN Failed
                     ELSE LegacyParse(ts, [st EXCEPT !.time = TimeAddFinal(@, n)],
                                      j, TRUE)
                ELSE IF Len(st.day) >= 3 THEN Failed
                ELSE LegacyParse(ts, DayAdd(st, n),
                                 IF IsSymbol(after, 45) THEN j + 1 ELSE j, TRUE)
  ELSE IF IsKeyword(token)
  THEN IF token.kind = "ampm" /\ st.time # <<>>
       THEN LegacyParse(ts, [st EXCEPT !.hourOffset = n], i + 1, hasNum)
       ELSE IF token.kind = "month"
       THEN LegacyParse(ts, [st EXCEPT !.named = n],
                        IF IsSymbol(peek, 45) THEN i + 2 ELSE i + 1, hasNum)
       ELSE IF token.kind = "zone" /\ hasNum
       THEN LegacyParse(ts, TzSet(st, n), i + 1, hasNum)
       ELSE IF hasNum \/ peek.kind = "number" THEN Failed
       ELSE LegacyParse(ts, st, i + 1, hasNum)
  ELSE IF IsAsciiSign(token) /\ (TzIsUTC(st) \/ st.time # <<>>)
  THEN LET numbered == peek.kind = "number"
           j   == IF numbered THEN i + 2 ELSE i + 1
           v   == IF numbered THEN peek.n ELSE 0
           len == IF numbered THEN peek.len ELSE 0
           signed == [st EXCEPT !.tzSign = IF token.c = 43 THEN 1 ELSE -1]
       IN  IF IsSymbol(Tok(ts, j), 58)
           THEN LegacyParse(ts, [signed EXCEPT !.tzHour = v, !.tzMinute = None],
                            j, TRUE)
           ELSE IF len \in {1, 2}
           THEN LegacyParse(ts, [signed EXCEPT !.tzHour = v, !.tzMinute = 0],
                            j, TRUE)
           ELSE IF len \in {3, 4}
           THEN LegacyParse(ts, [signed EXCEPT !.tzHour = v \div 100,
                                               !.tzMinute = v % 100], j, TRUE)
           ELSE Failed
  ELSE IF (IsAsciiSign(token) \/ IsSymbol(token, 41)) /\ hasNum THEN Failed
  ELSE LegacyParse(ts, st, i + 1, hasNum)

RECURSIVE PadOnes(_)
PadOnes(d) == IF Len(d) < 3 THEN PadOnes(Append(d, 1)) ELSE d

\* DayComposer::Write: which numbers are the year, the month and the day
DayWrite(st) ==
  LET comp == PadOnes(st.day)
      ymd == IF st.named = None
             THEN IF st.iso \/ ~IsDay(comp[1])
                  THEN [year |-> comp[1], month |-> comp[2], day |-> comp[3]]
                  ELSE [year |-> comp[3], month |-> comp[1], day |-> comp[2]]
             ELSE IF ~IsDay(comp[1])
                  THEN [year |-> comp[1], month |-> st.named, day |-> comp[2]]
                  ELSE [year |-> comp[2], month |-> st.named, day |-> comp[1]]
      year == IF ~st.iso /\ ymd.year \in 0..49 THEN ymd.year + 2000
              ELSE IF ~st.iso /\ ymd.year \in 50..99 THEN ymd.year + 1900
              ELSE ymd.year
  IN  [ok |-> st.day # <<>> /\ IsMonth(ymd.month) /\ IsDay(ymd.day),
       year |-> year, month |-> ymd.month, day |-> ymd.day]

\* TimeComposer::Write: the hour, minute, second and millisecond
TimeWrite(st) ==
  LET comp == PadZeros(st.time)
      hour == IF st.hourOffset = None THEN comp[1]
              ELSE (comp[1] % 12) + st.hourOffset
  IN  [ok |-> /\ st.hourOffset # None => IsHour12(comp[1])
              /\ \/ /\ IsHour(hour) /\ IsMinute(comp[2])
                    /\ IsSecond(comp[3]) /\ IsMillisecond(comp[4])
                 \/ hour = 24 /\ comp[2] = 0 /\ comp[3] = 0 /\ comp[4] = 0,
       hour |-> hour, minute |-> comp[2], second |-> comp[3],
       millisecond |-> comp[4]]

\* h * 225 modulo 2^28, for h below 2^28, computed in two halves of 14 bits
Times225(h) ==
  ((((h \div 16384) * 225) % 16384) * 16384 + (h % 16384) * 225) % 268435456

\* a quarter of hour * 3600 + minute * 60 as the engine computes the sum, in
\* 32-bit arithmetic that wraps: 3600 is 16 * 225, so the sum modulo 2^32 is
\* four times (4 * (hour * 225 modulo 2^28) + 15 * minute) modulo 2^30
QuarterSeconds(hour, minute) ==
  (4 * Times225(hour % 268435456) + 15 * minute) % 1073741824

\* the offset of a sign and a quarter of its seconds: the write fails when
\* the seconds are above 2^31 - 1, the largest small integer
ZoneOffset(sign, quarter) ==
  IF quarter >= 536870912 THEN [ok |-> FALSE, local |-> FALSE, seconds |-> 0]
  ELSE [ok |-> TRUE, local |-> FALSE, seconds |-> sign * (4 * quarter)]

\* TimeZoneComposer::Write: the offset in seconds east of UTC, or local time
ZoneWrite(st) ==
  IF st.tzSign = 0 THEN [ok |-> TRUE, local |-> TRUE, seconds |-> 0]
  ELSE ZoneOffset(st.tzSign,
                  QuarterSeconds(IF st.tzHour = None THEN 0 ELSE st.tzHour,
                                 IF st.tzMinute = None THEN 0 ELSE st.tzMinute))

\* MakeDay: the day number of a date, day 0 being 1970-01-01; the day of the
\* month may run past the end of the month
MakeDay(year, month, day) ==
  LET y   == IF month <= 2 THEN year - 1 ELSE year
      era == y \div 400
      yoe == y - era * 400
      mp  == IF month > 2 THEN month - 3 ELSE month + 9
      doy == (153 * mp + 2) \div 5
      doe == yoe * 365 + yoe \div 4 - yoe \div 100 + doy
  IN  era * 146097 + doe - 719468 + (day - 1)

\* the year, month and day of a day number
DateFromDay(days) ==
  LET z   == days + 719468
      era == z \div 146097
      doe == z - era * 146097
      yoe == (doe - doe \div 1460 + doe \div 36524 - doe \div 146096) \div 365
      doy == doe - (365 * yoe + yoe \div 4 - yoe \div 100)
      mp  == (5 * doy + 2) \div 153
      m   == IF mp < 10 THEN mp + 3 ELSE mp - 9
  IN  [year  |-> yoe + era * 400 + (IF m <= 2 THEN 1 ELSE 0),
       month |-> m,
       day   |-> doy - (153 * mp + 2) \div 5 + 1]

\* the last day a Date can hold: 100,000,000 days either side of 1970-01-01
MaxDay == 100000000

NaNDate == [isNaN |-> TRUE, year |-> 0, month |-> 0, day |-> 0]

\* the legacy rules, from where the ECMAScript format stopped
ParseLegacy(ts, es5) == LegacyParse(ts, es5.st, es5.next, es5.st.day # <<>>)

\* the composers after the whole text is read
ParseTokens(ts) == ParseLegacy(ts, ParseES5DateTime(ts))

\* the UTC date of the instant seconds after the start of the UTC day day,
\* when it is an instant a Date can hold
ClippedDate(day, seconds, atSecond) ==
  IF \/ day + seconds \div 86400 < -MaxDay
     \/ day + seconds \div 86400 > MaxDay
     \/ day + seconds \div 86400 = MaxDay /\ ~(seconds % 86400 = 0 /\ atSecond)
  THEN NaNDate
  ELSE [isNaN |-> FALSE] @@ DateFromDay(day + seconds \div 86400)

\* the instant of a local day and time of day in a zone east seconds east of
\* UTC; the whole days of the offset are taken off the day first
ShiftedDate(day, seconds, east, atSecond) ==
  ClippedDate(day - (east \div 86400), seconds - (east % 86400), atSecond)

\* The time zones a process is run in here.  "Etc/GMT+8" is eight hours west
\* of UTC at all times.
TimeZones == {"Etc/GMT+8", "UTC", "Asia/Kolkata"}

\* The changes of a zone's local time, in order: <<day, second, east>> says
\* that local times before that second of that local day are east seconds
\* east of UTC (as far back as the change before).  A local time that a
\* change skips or repeats is read with the offset before the change.
\* Asia/Kolkata: local mean time until 1854-06-28, then 5:53:20 until 1870,
\* 5:21:10 until 1906, 5:30 since, with 6:30 from 1941-10-01 to 1942-05-15 and
\* from 1942-09-01 to 1945-10-15.
ZoneChanges(zone) ==
  IF zone = "Asia/Kolkata"
  THEN << <<MakeDay(1854, 6, 28), 0, 21208>>, <<MakeDay(1870, 1, 1), 0, 21200>>,
          <<MakeDay(1906, 1, 1), 530, 19270>>,
          <<MakeDay(1941, 10, 1), 3600, 19800>>,
          <<MakeDay(1942, 5, 15), 0, 23400>>,
          <<MakeDay(1942, 9, 1), 3600, 19800>>,
          <<MakeDay(1945, 10, 15), 0, 23400>> >>
  ELSE <<>>

\* the seconds east of UTC of a zone after its last change
ZoneNow(zone) ==
  IF zone = "Asia/Kolkata" THEN 19800
  ELSE IF zone = "Etc/GMT+8" THEN -28800 ELSE 0

\* the changes of the zone that come after a local day and second of the day
ChangesAfter(zone, day, second) ==
  {i \in 1..Len(ZoneChanges(zone)) :
     \/ day < ZoneChanges(zone)[i][1]
     \/ day = ZoneChanges(zone)[i][1] /\ second < ZoneChanges(zone)[i][2]}

\* the seconds east of UTC of the local time seconds after the start of the
\* local day day
LocalOffset(zone, day, seconds) ==
  LET after == ChangesAfter(zone, day + seconds \div 86400, seconds % 86400)
  IN  IF after = {} THEN ZoneNow(zone)
      ELSE ZoneChanges(zone)[CHOOSE i \in after : \A j \in after : i <= j][3]

\* the instant of a day and time of day, local in zone tz or at the offset
\* the text gave
ZonedDate(day, seconds, zone, tz, atSecond) ==
  ShiftedDate(day, seconds,
              IF zone.local THEN LocalOffset(tz, day, seconds) ELSE zone.seconds,
              atSecond)

\* the instant of a date, a time and a zone
ComposedDate(date, time, zone, tz) ==
  IF ~date.ok \/ ~time.ok \/ ~zone.ok THEN NaNDate
  ELSE IF date.year < -271822 \/ date.year > 275761 THEN NaNDate
  ELSE ZonedDate(MakeDay(date.year, date.month, date.day),
                 time.hour * 3600 + time.minute * 60 + time.second,
                 zone, tz, time.millisecond = 0)

\* the composers written out
WriteComposers(st, tz) ==
  IF st.failed THEN NaNDate
  ELSE ComposedDate(DayWrite(st), TimeWrite(st), ZoneWrite(st), tz)

\* new Date(s) in a process whose time zone is tz: not a date, or the UTC
\* year, month and day of the instant
ParseDate(s, tz) == WriteComposers(ParseTokens(Tokenize(s)), tz)

\* the year of toISOString: four digits, or a sign and six digits
IsoYear(year) ==
  IF year \in 0..9999 THEN PadStart(NumberToString(year), 4, 48)
  ELSE IF year < 0 THEN <<45>> \o PadStart(NumberToString(-year), 6, 48)
  ELSE <<43>> \o PadStart(NumberToString(year), 6, 48)

\* parsed.toISOString().split("T")[0]
IsoDatePart(parsed) ==
  IsoYear(parsed.year) \o <<45>>
  \o PadStart(NumberToString(parsed.month), 2, 48) \o <<45>>
  \o PadStart(NumberToString(parsed.day), 2, 48)

\* the time zone of the process
VARIABLE timeZone

\* lines 37-41: the error for a date that is not one, or its ISO date part
DateOrError(parsed) ==
  IF parsed.isNaN
  THEN Thrown("Invalid event date provided")
  ELSE Returned(IsoDatePart(parsed))

normalizeDate(date) == DateOrError(ParseDate(date, timeZone))

(***************************************************************************)
(* The Event schema and its pre-save hook (event.model.ts).  A document is *)
(* a function from the paths that are set to their values; a path that is  *)
(* not set is not in the domain.                                           *)
(***************************************************************************)
\* requiredFields of the pre-save hook, in its order
requiredFields ==
  <<"title", "description", "overview", "image", "venue", "location",
    "date", "time", "mode", "audience", "organizer">>

\* the paths the schema declares with requiredString
RequiredStringPaths == {requiredFields[i] : i \in 1..Len(requiredFields)}

\* the paths the schema declares with requiredStringArray
RequiredArrayPaths == {"agenda", "tags"}

\* the paths the schema declares with trim: true
TrimmedPaths == RequiredStringPaths \cup {"slug"}

\* the schema's setters, run when a path is assigned
EventSetters(raw) ==
  [p \in DOMAIN raw |-> IF p \in TrimmedPaths THEN Trim(raw[p]) ELSE raw[p]]

\* requiredStringArray.validate.validator
ArrayValidator(value) ==
  Len(value) > 0 /\ \A i \in 1..Len(value) : Len(Trim(value[i])) > 0

\* the schema's validation, which mongoose runs before the pre-save hooks
EventSchemaValid(doc) ==
  /\ \A p \in RequiredStringPaths : p \in DOMAIN doc /\ doc[p] # <<>>
  /\ \A p \in RequiredArrayPaths : p \in DOMAIN doc /\ ArrayValidator(doc[p])

\* the first required field whose value is not a string or is empty after
\* trimming; 0 when there is none
FirstEmptyRequired(doc) ==
  LET bad == {i \in 1..Len(requiredFields) :
                \/ requiredFields[i] \notin DOMAIN doc
                \/ Len(Trim(doc[requiredFields[i]])) = 0}
  IN  IF bad = {} THEN 0 ELSE CHOOSE i \in bad : \A j \in bad : i <= j

\* !this.slug
SlugIsFalsy(doc) == "slug" \notin DOMAIN doc \/ doc["slug"] = <<>>

\* doc with path p assigned v
Assign(doc, p, v) ==
  [q \in DOMAIN doc \cup {p} |-> IF q = p THEN v ELSE doc[q]]

\* if (!this.slug || this.isModified("title")) this.slug = createSlug(this.title)
SlugStep(doc, modified) ==
  IF SlugIsFalsy(doc) \/ "title" \in modified
  THEN Assign(doc, "slug", Trim(createSlug(doc["title"])))
  ELSE doc

\* this[p] = r, where r is what a normalizer returned or threw: the
\* assignment runs the path's setter, the error goes to the hook's catch
AssignNormalized(doc, p, r) ==
  IF r.ok THEN Returned(Assign(doc, p, Trim(r.value))) ELSE Thrown(r.error)

\* the time step of the hook, normalizing nothing
TimeStepSkipped(doc, modified) == Returned(doc)

\* if (this.isModified("time")) this.time = normalizeTime(this.time)
TimeStep(doc, modified) ==
  IF "time" \in modified
  THEN AssignNormalized(doc, "time", normalizeTime(doc["time"]))
  ELSE Returned(doc)

\* if (this.isModified("date")) this.date = normalizeDate(this.date)
DateStep(doc, modified) ==
  IF "date" \in modified
  THEN AssignNormalized(doc, "date", normalizeDate(doc["date"]))
  ELSE Returned(doc)

\* the time step when the date step has not thrown
TimeStepAfter(d, modified) == IF ~d.ok THEN d ELSE TimeStep(d.value, modified)

\* eventSchema.pre("save"): the document as the hook leaves it, or the error
\* it passes to next
eventPreSave(doc, modified) ==
  IF FirstEmptyRequired(doc) # 0
  THEN Thrown("Field \"" \o requiredFields[FirstEmptyRequired(doc)]
              \o "\" is required and cannot be empty.")
  ELSE TimeStepAfter(DateStep(SlugStep(doc, modified), modified), modified)

(***************************************************************************)
(* What the text of a time is, stated without the parser.                  *)
(***************************************************************************)
\* the two decimal digits of n
TwoDigits(n) == <<DigitChar(n \div 10), DigitChar(n % 10)>>

\* the text is H:mm or HH:mm with hour h and minute m
IsTimeOf(text, h, m) ==
  \/ text = TwoDigits(h) \o <<58>> \o TwoDigits(m)
  \/ h < 10 /\ text = <<DigitChar(h)>> \o <<58>> \o TwoDigits(m)

\* the texts of the hours 0..23, with one digit or two
HourTexts == {TwoDigits(h) : h \in 0..23} \cup {<<DigitChar(h)>> : h \in 0..9}

\* the texts of the minutes 0..59, with two digits
MinuteTexts == {TwoDigits(m) : m \in 0..59}

\* after trimming, the text is an hour, a colon and a minute
TimeTextValid(text) ==
  LET t == Trim(text)
      n == Len(t)
  IN  /\ n \in {4, 5}
      /\ t[n - 2] = 58
      /\ SubSeq(t, 1, n - 3) \in HourTexts
      /\ SubSeq(t, n - 1, n) \in MinuteTexts

(***************************************************************************)
(* State.                                                                  *)
(***************************************************************************)
VARIABLES
  events,       \* the Event collection: _id -> persisted document
  docs,         \* the Event documents loaded by the requests that update
  saving,       \* the Event saves in flight: past the hook, before the write
  bookings,     \* the Booking collection, in insertion order
  bookingSave,  \* the Booking save in flight: its stage and document
  last,         \* what the most recent Event save was given and how it ended
  cached,       \* connectToDatabase's cache: conn and promise
  attempts,     \* the promises mongoose.connect has returned, with their state
  callers,      \* the calls of connectToDatabase: where each one stands
  calls,        \* how many times connectToDatabase has been called
  page,         \* the requests of EventDetailsPage: where each one stands
  call          \* a call of createSlug or normalizeTime: argument and result

dbVars == <<events, docs, saving, bookings, bookingSave, last, timeZone>>

connVars == <<cached, attempts, callers, calls>>

vars == <<events, docs, saving, bookings, bookingSave, last, cached, attempts,
          callers, calls, page, call, timeZone>>

\* most Events the collection holds in the model
MaxEvents == 2

\* most requests that load an Event and save it
MaxRequests == 2

\* last before any save
NoSave ==
  [op |-> "none", id |-> 0, isNew |-> FALSE, ok |-> TRUE, error |-> "",
   doc |-> <<>>, modified |-> {},
   titleModified |-> FALSE, slugModified |-> FALSE, slugFalsy |-> FALSE,
   docTitle |-> <<>>, docSlug |-> <<>>, fresh |-> FALSE,
   hooked |-> FALSE, hookSlug |-> <<>>, writesSlug |-> FALSE]

\* a request that has not loaded its Event, and one that has saved it
NoDoc == [pc |-> "idle", id |-> 0, doc |-> <<>>]
DoneDoc == [pc |-> "done", id |-> 0, doc |-> <<>>]

\* most Bookings the collection holds in the model
MaxBookings == 2

\* bookingSave before any save
IdleBookingSave == [pc |-> "idle", doc |-> <<>>, result |-> "none", error |-> ""]

InitDb ==
  /\ events = <<>>
  /\ docs = [r \in 1..MaxRequests |-> NoDoc]
  /\ saving = <<>>
  /\ bookings = <<>>
  /\ bookingSave = IdleBookingSave
  /\ last = NoSave

\* the process runs in one of the time zones
InitZone == timeZone \in TimeZones

(***************************************************************************)
(* Saving an Event: validation, the pre-save hook, then the write, which   *)
(* the unique index on slug may refuse.  The save of a new document        *)
(* inserts it; the save of a loaded document writes the paths that were    *)
(* modified since it was loaded, and nothing else, over whatever the       *)
(* collection holds for that _id by then.  save() runs validation and the  *)
(* hook and sends the write; the write is carried out later, so the saves  *)
(* of other requests may run between the hook and the write of one save.   *)
(***************************************************************************)
\* eventSchema.index({ slug: 1 }, { unique: true }): another document holds slug
DuplicateSlug(id, slug) ==
  \E other \in DOMAIN events : other # id /\ events[other]["slug"] = slug

\* this.isModified(p) of a loaded document after assignments: the paths whose
\* value differs from the loaded one
ModifiedPaths(loaded, doc) ==
  {p \in DOMAIN doc : p \notin DOMAIN loaded \/ doc[p] # loaded[p]}

\* the paths the save writes: every path of a new document; of a loaded one
\* the paths modified before the save and those the hook changed.  Releases
\* of mongoose differ on a path that was changed and is back at the value it
\* was loaded with by the time of the write: it is written, or, where
\* setting a path to its loaded value unmarks it, it is not.
WrittenPaths(isNew, loaded, doc, hooked, modified, unmarks) ==
  IF isNew THEN DOMAIN hooked
  ELSE IF unmarks THEN ModifiedPaths(loaded, hooked)
  ELSE modified \cup ModifiedPaths(doc, hooked)

\* doc restricted to the paths S
Restrict(doc, S) == [p \in DOMAIN doc \cap S |-> doc[p]]

\* doc with the paths of over replaced
Overlay(doc, over) ==
  [p \in DOMAIN doc \cup DOMAIN over |->
     IF p \in DOMAIN over THEN over[p] ELSE doc[p]]

\* validation, then the pre-save hook
ValidateAndHook(doc, modified) ==
  IF EventSchemaValid(doc) THEN eventPreSave(doc, modified)
  ELSE Thrown("Event validation failed")

\* the text of path p of doc, empty when the path is not set
TextOf(doc, p) == IF p \in DOMAIN doc THEN doc[p] ELSE <<>>

\* what a save was given: the document as it stood when save() was called
\* and the paths that were modified
Given(id, isNew, doc, modified) ==
  [op |-> "saveEvent", id |-> id, isNew |-> isNew,
   doc |-> doc, modified |-> modified,
   titleModified |-> "title" \in modified,
   slugModified |-> "slug" \in modified,
   slugFalsy |-> SlugIsFalsy(doc),
   docTitle |-> TextOf(doc, "title"),
   docSlug |-> TextOf(doc, "slug")]

\* a save whose write is on its way: what it was given, the document it was
\* loaded as, the document as the hook left it and the paths the write carries
InFlight(given, loaded, value, written) ==
  [given |-> given, loaded |-> loaded, value |-> value, written |-> written]

\* the save ends where validation or the hook failed: it rejects with the
\* error and nothing is written
Rejected(given, error) ==
  given @@ [fresh |-> FALSE, hooked |-> FALSE, hookSlug |-> <<>>,
            writesSlug |-> FALSE, ok |-> FALSE, error |-> error]

\* save() after validation and the hook have run with the result hooked: the
\* write is sent, or the save rejects
AfterHook(id, isNew, loaded, doc, modified, unmarks, hooked) ==
  IF hooked.ok
  THEN /\ saving' = Append(saving,
                      InFlight(Given(id, isNew, doc, modified), loaded,
                               hooked.value,
                               WrittenPaths(isNew, loaded, doc, hooked.value,
                                            modified, unmarks)))
       /\ last' = last
  ELSE /\ saving' = saving
       /\ last' = Rejected(Given(id, isNew, doc, modified), hooked.error)

\* document.save() of document doc with _id id, up to the write
SaveEvent(id, isNew, loaded, doc, modified, unmarks) ==
  /\ AfterHook(id, isNew, loaded, doc, modified, unmarks,
               ValidateAndHook(doc, modified))
  /\ events' = events

\* the new documents whose insert is on its way
Inserting == {k \in 1..Len(saving) : saving[k].given.isNew}

\* new Event(input).save(): every path that was set counts as modified.  The
\* model numbers the Events in the order of their inserts, so the document
\* has no number before its insert.
CreateEvent(input) ==
  /\ Cardinality(DOMAIN events) + Cardinality(Inserting) < MaxEvents
  /\ SaveEvent(0, TRUE, <<>>, EventSetters(input), DOMAIN input, FALSE)
  /\ UNCHANGED <<docs, bookings, bookingSave, connVars, page, call, timeZone>>

\* request r loads the persisted Event id: the query is answered with the
\* document as the collection holds it now.  Requests are numbered in the
\* order in which they load.
LoadEvent(r, id) ==
  /\ docs[r].pc = "idle"
  /\ r > 1 => docs[r - 1].pc # "idle"
  /\ id \in DOMAIN events
  /\ docs' = [docs EXCEPT ![r] = [pc |-> "loaded", id |-> id, doc |-> events[id]]]
  /\ UNCHANGED <<events, saving, bookings, bookingSave, last, connVars, page,
                 call, timeZone>>

\* the document of a request with some paths assigned
Assigned(loaded, assigned) == Overlay(loaded, EventSetters(assigned))

\* request r assigns some paths of the document it loaded and saves it
UpdateEvent(r, assigned, unmarks) ==
  /\ docs[r].pc = "loaded"
  /\ SaveEvent(docs[r].id, FALSE, docs[r].doc, Assigned(docs[r].doc, assigned),
               ModifiedPaths(docs[r].doc, Assigned(docs[r].doc, assigned)),
               unmarks)
  /\ docs' = [docs EXCEPT ![r] = DoneDoc]
  /\ UNCHANGED <<bookings, bookingSave, connVars, page, call, timeZone>>

\* saving without its k-th element
Remove(k) == SubSeq(saving, 1, k - 1) \o SubSeq(saving, k + 1, Len(saving))

\* the write carries a slug that the unique index refuses
Refused(id, save) ==
  "slug" \in save.written /\ DuplicateSlug(id, save.value["slug"])

\* the collection after the write of save under _id id
Persisted(id, save) ==
  IF Refused(id, save) THEN events
  ELSE IF save.given.isNew
  THEN [i \in DOMAIN events \cup {id} |-> IF i = id THEN save.value ELSE events[i]]
  ELSE [events EXCEPT ![id] = Overlay(@, Restrict(save.value, save.written))]

\* how the write of save under _id id ends; fresh: the collection still holds
\* the document as it was loaded; writesSlug: the write carries a slug
Outcome(id, save) ==
  [save.given EXCEPT !.id = id]
    @@ [fresh |-> ~save.given.isNew /\ save.loaded = events[id],
        hooked |-> TRUE,
        hookSlug |-> save.value["slug"],
        writesSlug |-> "slug" \in save.written,
        ok |-> ~Refused(id, save),
        error |-> IF Refused(id, save) THEN "E11000 duplicate key error" ELSE ""]

\* the write of save: an insert under the next _id, or an update
WriteOf(id, save) ==
  /\ events' = Persisted(id, save)
  /\ last' = Outcome(id, save)

\* the write of the k-th save in flight is carried out and the save ends
WriteEvent(k) ==
  /\ k \in 1..Len(saving)
  /\ WriteOf(IF saving[k].given.isNew THEN Cardinality(DOMAIN events) + 1
             ELSE saving[k].given.id,
             saving[k])
  /\ saving' = Remove(k)
  /\ UNCHANGED <<docs, bookings, bookingSave, connVars, page, call, timeZone>>


(***************************************************************************)
(* The inputs of the model.                                                *)
(***************************************************************************)
\* titles: "Go 1" and "go-1!", which have the same slug, and "Js"
Titles ==
  {<<71, 111, 32, 49>>, <<103, 111, 45, 49, 33>>, <<74, 115>>}

\* slugs assigned directly: " x ", which is no title's slug, and none
SlugTexts == {<<32, 120, 32>>, <<>>}

\* titles that are blank or give an empty slug: " " and "!"
OddTitles == {<<32>>, <<33>>}

\* dates: an ECMAScript date, read as UTC ("2024-03-05"); the same day in
\* forms read as local time ("2024-3-5", "March 5, 2024" and, late in the
\* day, "2024-03-05T23:30"); a date-time with Z ("2024-03-05T10:00:00Z"); a
\* month 13 ("2024-13-01"); no date at all ("nope"); a word outside ASCII
\* between the numbers ("5 \u00C0 6 2024"); a date that ends at the code
\* unit 0 ("2024-03-05\u0000x"); an offset whose seconds wrap around 2^32
\* ("3/5/2024 23:30 +1193046:30"); a LINE SEPARATOR between two numbers,
\* alone ("5\u20286 2024") and after a space ("5 \u20286 2024")
Dates ==
  {<<50, 48, 50, 52, 45, 48, 51, 45, 48, 53>>,
   <<50, 48, 50, 52, 45, 51, 45, 53>>,
   <<77, 97, 114, 99, 104, 32, 53, 44, 32, 50, 48, 50, 52>>,
   <<50, 48, 50, 52, 45, 48, 51, 45, 48, 53, 84, 50, 51, 58, 51, 48>>,
   <<50, 48, 50, 52, 45, 48, 51, 45, 48, 53, 84, 49, 48, 58, 48, 48,
     58, 48, 48, 90>>,
   <<50, 48, 50, 52, 45, 49, 51, 45, 48, 49>>,
   <<110, 111, 112, 101>>,
   <<53, 32, 192, 32, 54, 32, 50, 48, 50, 52>>,
   <<50, 48, 50, 52, 45, 48, 51, 45, 48, 53, 0, 120>>,
   <<51, 47, 53, 47, 50, 48, 50, 52, 32, 50, 51, 58, 51, 48, 32, 43,
     49, 49, 57, 51, 48, 52, 54, 58, 51, 48>>,
   <<53, 8232, 54, 32, 50, 48, 50, 52>>,
   <<53, 32, 8232, 54, 32, 50, 48, 50, 52>>}

\* times: valid ("9:05"), valid inside white space ("\r9:05\u00A0"), hour
\* 24 ("24:00"), a one-digit minute ("9:5")
Times ==
  {<<57, 58, 48, 53>>, <<13, 57, 58, 48, 53, 160>>,
   <<50, 52, 58, 48, 48>>, <<57, 58, 53>>}

\* texts: "d", and two that are blank: " " and "\uFEFF\f"
Texts == {<<100>>, <<32>>, <<65279, 12>>}

\* lists: ["t"], [" "] and the empty list
Lists == {<< <<116>> >>, << <<32>> >>, <<>>}

\* an input with every path set to an acceptable value: the title "Go 1",
\* the date "2024-03-05", the time "9:05", the lists ["t"], the rest "d"
GoodInput ==
  [p \in RequiredStringPaths \cup RequiredArrayPaths |->
     CASE p = "title" -> <<71, 111, 32, 49>>
       [] p = "date" -> <<50, 48, 50, 52, 45, 48, 51, 45, 48, 53>>
       [] p = "time" -> <<57, 58, 48, 53>>
       [] p \in RequiredArrayPaths -> << <<116>> >>
       [] OTHER -> <<100>>]

\* the assignments of one value of values to the path p
AssignmentsTo(p, values) == {Assign(<<>>, p, v) : v \in values}

\* doc without path p
Without(doc, p) == [q \in DOMAIN doc \ {p} |-> doc[q]]

\* the inputs of new Event(...) that differ in the title, and one that
\* supplies a slug of its own
EventInputs ==
  {Overlay(GoodInput, f) : f \in AssignmentsTo("title", Titles)}
  \cup {Overlay(GoodInput, Assign(f, "slug", <<32, 120, 32>>)) :
          f \in AssignmentsTo("title", {<<74, 115>>})}

\* the assignments to a loaded Event that bear on its slug: the title, the
\* slug, or the time alone
UpdateInputs ==
  AssignmentsTo("title", Titles)
  \cup AssignmentsTo("slug", SlugTexts)
  \cup AssignmentsTo("time", {<<57, 58, 48, 53>>})

\* the inputs of new Event(...) that differ in what validation and the hook
\* check: every date, every time, a date and a time that are both refused
\* ("nope" and "9:5"), or one path blank, empty or left out
CheckedEventInputs ==
  {Overlay(GoodInput, d) : d \in AssignmentsTo("date", Dates)}
  \cup {Overlay(GoodInput, t) : t \in AssignmentsTo("time", Times)}
  \cup {Overlay(GoodInput,
                Overlay(Assign(<<>>, "date", <<110, 111, 112, 101>>),
                        Assign(<<>>, "time", <<57, 58, 53>>)))}
  \cup {Overlay(GoodInput, f) : f \in AssignmentsTo("title", OddTitles)}
  \cup UNION {{Overlay(GoodInput, f) : f \in AssignmentsTo(p, Texts)}
              \cup {Without(GoodInput, p)} : p \in RequiredStringPaths \ {"title"}}
  \cup UNION {{Overlay(GoodInput, f) : f \in AssignmentsTo(p, Lists)}
              \cup {Without(GoodInput, p)} : p \in RequiredArrayPaths}

\* the assignments to a loaded Event that validation and the hook check
CheckedUpdateInputs ==
  AssignmentsTo("date", Dates)
  \cup AssignmentsTo("time", Times)
  \cup AssignmentsTo("title", OddTitles)
  \cup AssignmentsTo("description", Texts)
  \cup AssignmentsTo("tags", Lists)

(***************************************************************************)
(* The Booking schema and its pre-save hook (booking.model.ts).  The hook  *)
(* awaits Event.exists, so a save is three steps: validation and the query *)
(* being sent, the query's answer with the rest of the hook, the insert.   *)
(* The query and the insert are operations of the database and may fail:   *)
(* the hook passes the error of a rejected query to next (lines 57-58) and *)
(* the save rejects with it, as it does with the error of a failed insert. *)
(***************************************************************************)
\* a character [^\s@] matches; "@" is 64
EmailPartChar(c) == c \notin Whitespace \cup {64}

\* every character of s from position a to position b matches [^\s@]
EmailPart(s, a, b) == \A i \in a..b : EmailPartChar(s[i])

\* emailRegex.test(value), emailRegex = /^[^\s@]+@[^\s@]+\.[^\s@]+$/
emailRegexTest(value) ==
  \E at \in 1..Len(value), dot \in 1..Len(value) :
    /\ 1 < at /\ at + 1 < dot /\ dot < Len(value)
    /\ value[at] = 64
    /\ value[dot] = 46
    /\ EmailPart(value, 1, at - 1)
    /\ EmailPart(value, at + 1, dot - 1)
    /\ EmailPart(value, dot + 1, Len(value))

\* the schema's setters: email has trim: true and lowercase: true
BookingSetters(raw) ==
  [p \in DOMAIN raw |-> IF p = "email" THEN Trim(ToLowerCase(raw[p])) ELSE raw[p]]

\* the schema's validation: eventId and email are required, email has the
\* emailRegex validator
BookingSchemaValid(doc) ==
  /\ "eventId" \in DOMAIN doc
  /\ "email" \in DOMAIN doc
  /\ doc["email"] # <<>>
  /\ emailRegexTest(doc["email"])

\* Event.exists({ _id: eventId }) answering that any identifier exists
EventExistsAlways(eventId) == TRUE

\* Event.exists({ _id: eventId })
EventExists(eventId) == eventId \in DOMAIN events

\* the hook after the query's answer: the error it passes to next, or none
bookingPreSave(doc) ==
  IF ~EventExists(doc["eventId"])
  THEN Thrown("Cannot create booking: referenced event does not exist.")
  ELSE IF ~emailRegexTest(doc["email"])
       THEN Thrown("Invalid email address provided.")
       ELSE Returned(doc)

\* new Booking(input).save() up to the hook's await
BookingSaveStart(input) ==
  /\ bookingSave.pc = "idle"
  /\ Len(bookings) < MaxBookings
  /\ LET doc == BookingSetters(input)
     IN  bookingSave' =
           IF BookingSchemaValid(doc)
           THEN [pc |-> "exists", doc |-> doc, result |-> "none", error |-> ""]
           ELSE [pc |-> "idle", doc |-> doc, result |-> "rejected",
                 error |-> "Booking validation failed"]
  /\ UNCHANGED <<events, docs, saving, last, bookings, connVars, page, call,
                 timeZone>>

\* Event.exists answers and the hook runs to its end
BookingExistsReply ==
  /\ bookingSave.pc = "exists"
  /\ LET hooked == bookingPreSave(bookingSave.doc)
     IN  bookingSave' =
           IF hooked.ok
           THEN [bookingSave EXCEPT !.pc = "insert"]
           ELSE [bookingSave EXCEPT !.pc = "idle", !.result = "rejected",
                                    !.error = hooked.error]
  /\ UNCHANGED <<events, docs, saving, last, bookings, connVars, page, call,
                 timeZone>>

\* Event.exists rejects: the catch of the hook passes the error to next
BookingExistsRejects ==
  /\ bookingSave.pc = "exists"
  /\ bookingSave' = [bookingSave EXCEPT !.pc = "idle", !.result = "rejected",
                                        !.error = "Event.exists failed"]
  /\ UNCHANGED <<events, docs, saving, last, bookings, connVars, page, call,
                 timeZone>>

\* the document is inserted
BookingInsert ==
  /\ bookingSave.pc = "insert"
  /\ bookings' = Append(bookings, bookingSave.doc)
  /\ bookingSave' = [bookingSave EXCEPT !.pc = "idle", !.result = "saved"]
  /\ UNCHANGED <<events, docs, saving, last, connVars, page, call, timeZone>>

\* the insert fails in the database and the save rejects
BookingInsertFails ==
  /\ bookingSave.pc = "insert"
  /\ bookingSave' = [bookingSave EXCEPT !.pc = "idle", !.result = "rejected",
                                        !.error = "insert failed"]
  /\ UNCHANGED <<events, docs, saving, last, bookings, connVars, page, call,
                 timeZone>>

\* emails: "a@b.c"; " A@b.c" and, with a capital outside ASCII, "\u00C0@b.c",
\* which the setters change; and texts the validator refuses: "a@b",
\* "a @b.c", "@b.c", "a@b.", "a@.c" and the empty text
Emails ==
  {<<97, 64, 98, 46, 99>>, <<32, 65, 64, 98, 46, 99>>,
   <<192, 64, 98, 46, 99>>,
   <<97, 64, 98>>, <<97, 32, 64, 98, 46, 99>>, <<64, 98, 46, 99>>,
   <<97, 64, 98, 46>>, <<97, 64, 46, 99>>, <<>>}

\* the inputs of new Booking(...): an identifier that may or may not be an
\* Event's and an email, or one of the two left out
BookingInputs ==
  {[p \in {"eventId", "email"} |-> IF p = "eventId" THEN id ELSE email] :
     id \in 1..(MaxEvents + 1), email \in Emails}
  \cup {[p \in {"email"} |-> email] : email \in Emails}
  \cup {[p \in {"eventId"} |-> id] : id \in 1..(MaxEvents + 1)}

\* the Events created while Bookings are saved: "Go 1", "Js" and, refused by
\* the hook, " "
SampleEventInputs ==
  {Overlay(GoodInput, f) :
     f \in AssignmentsTo("title", {<<71, 111, 32, 49>>, <<74, 115>>, <<32>>})}

NextBookings ==
  \/ \E input \in SampleEventInputs : CreateEvent(input)
  \/ \E k \in 1..MaxEvents : WriteEvent(k)
  \/ \E input \in BookingInputs : BookingSaveStart(input)
  \/ BookingExistsReply
  \/ BookingExistsRejects
  \/ BookingInsert
  \/ BookingInsertFails

\* Events are created, loaded and saved with the inputs that bear on the slug
NextDb ==
  \/ \E input \in EventInputs : CreateEvent(input)
  \/ \E r \in 1..MaxRequests, id \in 1..MaxEvents : LoadEvent(r, id)
  \/ \E r \in 1..MaxRequests, assigned \in UpdateInputs, unmarks \in BOOLEAN :
       UpdateEvent(r, assigned, unmarks)
  \/ \E k \in 1..(MaxEvents + MaxRequests) : WriteEvent(k)

\* most requests that load an Event and save it where validation is checked
MaxCheckedRequests == 1

\* Events are created, loaded and saved with the inputs validation checks
NextChecked ==
  \/ \E input \in CheckedEventInputs : CreateEvent(input)
  \/ \E r \in 1..MaxCheckedRequests, id \in 1..MaxEvents : LoadEvent(r, id)
  \/ \E r \in 1..MaxCheckedRequests, assigned \in CheckedUpdateInputs,
          unmarks \in BOOLEAN :
       UpdateEvent(r, assigned, unmarks)
  \/ \E k \in 1..(MaxEvents + MaxCheckedRequests) : WriteEvent(k)

(***************************************************************************)
(* connectToDatabase and its cache.  A promise is named by the number of   *)
(* the mongoose.connect call that returned it, and the connection it       *)
(* resolves to by the same number.  A call runs without interruption up to *)
(* its await and again from the await to its end.                          *)
(***************************************************************************)
\* conn: null, promise: null
Null == 0

\* the requests that may be calling connectToDatabase at once
MaxCallers == 3

\* the calls of connectToDatabase made in a run of the model
MaxCalls == 4

Callers == 1..MaxCallers

IdleCaller == [pc |-> "idle", awaits |-> Null, result |-> Null,
               error |-> Null, late |-> FALSE]

InitConn ==
  /\ cached = [conn |-> Null, promise |-> Null]
  /\ attempts = <<>>
  /\ callers = [c \in Callers |-> IdleCaller]
  /\ calls = 0

\* !cached.promise, ignoring the promise and looking at conn alone
NoPromiseCachedByConn == cached.conn = Null

\* !cached.promise
NoPromiseCached == cached.promise = Null

\* the cache after the awaited promise rejected, with the promise dropped
CacheAfterRejectionReset == [cached EXCEPT !.promise = Null]

\* the cache after the awaited promise rejected: the assignment to
\* cached.conn does not happen and nothing else touches the cache
CacheAfterRejection == cached

\* connectToDatabase() from its start to its return or its await
Call(c) ==
  /\ callers[c].pc # "awaiting"
  /\ calls < MaxCalls
  /\ calls' = calls + 1
  /\ IF cached.conn # Null
     THEN /\ callers' = [callers EXCEPT ![c] =
                           [IdleCaller EXCEPT !.pc = "returned",
                                              !.result = cached.conn,
                                              !.late = TRUE]]
          /\ UNCHANGED <<cached, attempts>>
     ELSE LET connect == NoPromiseCached
              promise == IF connect THEN Len(attempts) + 1 ELSE cached.promise
          IN  /\ attempts' = IF connect THEN Append(attempts, "pending")
                             ELSE attempts
              /\ cached' = [cached EXCEPT !.promise = promise]
              /\ callers' = [callers EXCEPT ![c] =
                               [IdleCaller EXCEPT
                                  !.pc = "awaiting", !.awaits = promise,
                                  !.late = ~connect /\ attempts[promise] # "pending"]]
  /\ UNCHANGED <<dbVars, page, call>>

\* the promise of mongoose.connect settles: the connection opens or fails
Settle(n, outcome) ==
  /\ n \in 1..Len(attempts)
  /\ attempts[n] = "pending"
  /\ attempts' = [attempts EXCEPT ![n] = outcome]
  /\ UNCHANGED <<cached, callers, calls, dbVars, page, call>>

\* connectToDatabase() from its await to its end
Resume(c) ==
  /\ callers[c].pc = "awaiting"
  /\ attempts[callers[c].awaits] # "pending"
  /\ IF attempts[callers[c].awaits] = "fulfilled"
     THEN /\ cached' = [cached EXCEPT !.conn = callers[c].awaits]
          /\ callers' = [callers EXCEPT ![c].pc = "returned",
                                        ![c].result = callers[c].awaits]
     ELSE /\ cached' = CacheAfterRejection
          /\ callers' = [callers EXCEPT ![c].pc = "threw",
                                        ![c].error = callers[c].awaits]
  /\ UNCHANGED <<attempts, calls, dbVars, page, call>>

NextConn ==
  \/ \E c \in Callers : Call(c)
  \/ \E n \in 1..MaxCalls, outcome \in {"fulfilled", "rejected"} : Settle(n, outcome)
  \/ \E c \in Callers : Resume(c)

(***************************************************************************)
(* EventDetailsPage.  Its awaits are params, the fetch, response.json()    *)
(* and getSimilarEventsBySlug; notFound() throws, and inside the try block *)
(* the catch clause logs the throw and calls notFound() again.  The await  *)
(* of params is before the try block.  Every request runs the function     *)
(* with locals of its own, and the requests in flight take their steps in  *)
(* any order.                                                              *)
(***************************************************************************)
\* most requests of the page in flight at once
MaxPageRequests == 2

PageSlugs == {"go-1", "no-such-event"}

Statuses == {200, 201, 404, 500}

\* what data.event may be: nothing, null, a string, or an object whose
\* description is missing, empty or a text
EventPayloads ==
  {[type |-> t, description |-> "undefined"] : t \in {"undefined", "null", "string"}}
  \cup {[type |-> "object", description |-> d] : d \in {"undefined", "", "text"}}

\* what response.json() may resolve to: null, a string, or an object
Payloads ==
  {[type |-> t, event |-> [type |-> "undefined", description |-> "undefined"]] :
     t \in {"null", "string"}}
  \cup {[type |-> "object", event |-> e] : e \in EventPayloads}

NoPayload == [type |-> "undefined",
              event |-> [type |-> "undefined", description |-> "undefined"]]

\* a request that has not come in
IdlePage == [pc |-> "idle", slug |-> "", paramsThrew |-> FALSE,
             fetchThrew |-> FALSE, status |-> 0,
             jsonThrew |-> FALSE, data |-> NoPayload, similarThrew |-> FALSE,
             logs |-> <<>>, result |-> "none"]

InitPage == page = [r \in 1..MaxPageRequests |-> IdlePage]

\* response.ok
ResponseOk(status) == status \in 200..299

\* !value for null, undefined, a string that is not empty, or an object
Falsy(type) == type \in {"null", "undefined"}

\* !data || typeof data !== "object" || !data.event || typeof data.event !== "object"
PayloadInvalid(data) ==
  \/ Falsy(data.type)
  \/ data.type # "object"
  \/ Falsy(data.event.type)
  \/ data.event.type # "object"

\* !description, passing every description
DescriptionNeverMissing(event) == FALSE

\* !description
DescriptionMissing(event) == event.description \in {"undefined", ""}

\* return notFound() inside the try block: the throw is caught, logged by the
\* catch clause, and notFound() is called again
NotFoundInTry(p, log) ==
  [p EXCEPT !.pc = "done", !.result = "notFound",
            !.logs = p.logs \o log \o <<"Error fetching event">>]

\* request r comes in for the page of slug: the function runs to await params
PageRequest(r, slug) ==
  /\ page[r].pc = "idle"
  /\ page' = [page EXCEPT ![r] = [IdlePage EXCEPT !.pc = "params", !.slug = slug]]
  /\ UNCHANGED <<dbVars, connVars, call>>

\* params resolves: the try block is entered and the fetch is sent
ParamsResolves(r) ==
  /\ page[r].pc = "params"
  /\ page' = [page EXCEPT ![r].pc = "fetching"]
  /\ UNCHANGED <<dbVars, connVars, call>>

\* params rejects: the await is outside the try block, so the function
\* rejects with that error; nothing is logged and notFound() is not called
ParamsRejects(r) ==
  /\ page[r].pc = "params"
  /\ page' = [page EXCEPT ![r].pc = "done", ![r].paramsThrew = TRUE,
                          ![r].result = "rejected"]
  /\ UNCHANGED <<dbVars, connVars, call>>

\* the fetch rejects: the catch clause logs it and calls notFound()
FetchThrows(r) ==
  /\ page[r].pc = "fetching"
  /\ page' = [page EXCEPT ![r].pc = "done", ![r].fetchThrew = TRUE,
                          ![r].result = "notFound",
                          ![r].logs = <<"Error fetching event">>]
  /\ UNCHANGED <<dbVars, connVars, call>>

\* the fetch resolves to a response with this status
FetchResponds(r, status) ==
  /\ page[r].pc = "fetching"
  /\ LET p == [page[r] EXCEPT !.status = status]
     IN  page' = [page EXCEPT ![r] =
           IF ~ResponseOk(status)
           THEN IF status = 404
                THEN NotFoundInTry(p, <<>>)
                ELSE [p EXCEPT !.pc = "done", !.result = "unavailable",
                               !.logs = <<"Failed to fetch event">>]
           ELSE [p EXCEPT !.pc = "parsing"]]
  /\ UNCHANGED <<dbVars, connVars, call>>

\* response.json() rejects
JsonThrows(r) ==
  /\ page[r].pc = "parsing"
  /\ page' = [page EXCEPT ![r] =
                NotFoundInTry([page[r] EXCEPT !.jsonThrew = TRUE],
                              <<"Error parsing event response JSON">>)]
  /\ UNCHANGED <<dbVars, connVars, call>>

\* response.json() resolves to data
JsonResolves(r, data) ==
  /\ page[r].pc = "parsing"
  /\ LET p == [page[r] EXCEPT !.data = data]
     IN  page' = [page EXCEPT ![r] =
           IF PayloadInvalid(data)
           THEN NotFoundInTry(p, <<"Invalid event payload">>)
           ELSE IF DescriptionMissing(data.event)
                THEN NotFoundInTry(p, <<"missing required 'description' field">>)
                ELSE [p EXCEPT !.pc = "similar"]]
  /\ UNCHANGED <<dbVars, connVars, call>>

\* getSimilarEventsBySlug resolves, and the page is rendered, or rejects,
\* and the catch clause logs it and calls notFound()
SimilarSettles(r, threw) ==
  /\ page[r].pc = "similar"
  /\ page' = [page EXCEPT ![r] =
                IF threw
                THEN [page[r] EXCEPT !.pc = "done", !.similarThrew = TRUE,
                                     !.result = "notFound",
                                     !.logs = <<"Error fetching event">>]
                ELSE [page[r] EXCEPT !.pc = "done", !.result = "rendered"]]
  /\ UNCHANGED <<dbVars, connVars, call>>

NextPage ==
  \/ \E r \in 1..MaxPageRequests, slug \in PageSlugs : PageRequest(r, slug)
  \/ \E r \in 1..MaxPageRequests : ParamsResolves(r)
  \/ \E r \in 1..MaxPageRequests : ParamsRejects(r)
  \/ \E r \in 1..MaxPageRequests : FetchThrows(r)
  \/ \E r \in 1..MaxPageRequests, status \in Statuses : FetchResponds(r, status)
  \/ \E r \in 1..MaxPageRequests : JsonThrows(r)
  \/ \E r \in 1..MaxPageRequests, data \in Payloads : JsonResolves(r, data)
  \/ \E r \in 1..MaxPageRequests, threw \in BOOLEAN : SimilarSettles(r, threw)

(***************************************************************************)
(* Calls of the pure functions, one argument per behaviour.                *)
(***************************************************************************)
NoCall == [fn |-> "none", arg |-> <<>>, done |-> FALSE, ret |-> Thrown("")]

\* "a", "B", three capitals outside ASCII (A WITH GRAVE, the KELVIN SIGN,
\* whose lower case is "k", and I WITH DOT ABOVE, whose lower case starts
\* with "i"), "7", the space and the carriage return, "-" and "!"
TitleChars == {97, 66, 192, 8490, 304, 55, 32, 13, 45, 33}

\* "0", "2", "4", "5", "9", ":", the space, the form feed and "x"
TimeChars == {48, 50, 52, 53, 57, 58, 32, 12, 120}

InitCall == call = NoCall

CallCreateSlug ==
  /\ call.fn = "createSlug"
  /\ ~call.done
  /\ call' = [call EXCEPT !.done = TRUE, !.ret = Returned(createSlug(call.arg))]
  /\ UNCHANGED <<dbVars, connVars, page>>

CallNormalizeTime ==
  /\ call.fn = "normalizeTime"
  /\ ~call.done
  /\ call' = [call EXCEPT !.done = TRUE, !.ret = normalizeTime(call.arg)]
  /\ UNCHANGED <<dbVars, connVars, page>>

(***************************************************************************)
(* Specifications.                                                         *)
(***************************************************************************)
Init == InitDb /\ InitZone /\ InitConn /\ InitPage /\ InitCall

Next == NextDb

\* the Event collection under saves of new and of loaded documents
Spec == Init /\ [][Next]_vars

\* Event saves with the inputs validation and the hook check
SpecChecked == Init /\ [][NextChecked]_vars

\* the Booking collection, with Events being created meanwhile
SpecBookings == Init /\ [][NextBookings]_vars

\* calls of connectToDatabase in every interleaving
SpecConn == Init /\ [][NextConn]_vars

\* requests of the event details page
SpecPage == Init /\ [][NextPage]_vars

\* the time zone has no part in createSlug and normalizeTime
InitSlug ==
  /\ InitDb /\ timeZone = "UTC" /\ InitConn /\ InitPage
  /\ \E title \in StringsUpTo(TitleChars, MaxTitleLen) :
       call = [NoCall EXCEPT !.fn = "createSlug", !.arg = title]

NextSlug == CallCreateSlug

\* createSlug on every title up to MaxTitleLen
SpecSlug == InitSlug /\ [][NextSlug]_vars

InitTime ==
  /\ InitDb /\ timeZone = "UTC" /\ InitConn /\ InitPage
  /\ \E time \in StringsUpTo(TimeChars, MaxTimeLen) :
       call = [NoCall EXCEPT !.fn = "normalizeTime", !.arg = time]

NextTime == CallNormalizeTime

\* normalizeTime on every text up to MaxTimeLen
SpecTime == InitTime /\ [][NextTime]_vars

(***************************************************************************)
(* Properties of the Booking collection, checked under SpecBookings.       *)
(***************************************************************************)
\* the text is local@domain.tld: one @, no white space, and a dot after the
\* @ with a character on each side of it
EmailTextValid(text) ==
  /\ Len(text) > 0
  /\ Cardinality({i \in 1..Len(text) : text[i] = 64}) = 1
  /\ \A i \in 1..Len(text) : text[i] \notin Whitespace
  /\ text[1] # 64
  /\ \E i \in 3..(Len(text) - 1) :
       text[i] = 46 /\ 64 \notin {text[k] : k \in (i - 1)..Len(text)}

\* the step starts a Booking save: validation passes for an eventId and a
\* valid email and the query is sent, and rejects the save otherwise
StartChecked ==
  (bookingSave.pc = "idle" /\ bookingSave' # bookingSave)
    => /\ bookings' = bookings
       /\ IF /\ DOMAIN bookingSave'.doc = {"eventId", "email"}
             /\ EmailTextValid(bookingSave'.doc["email"])
          THEN bookingSave'.pc = "exists"
          ELSE bookingSave'.pc = "idle" /\ bookingSave'.result = "rejected"

\* the step ends the query of a Booking save
QueryEnds == bookingSave.pc = "exists" /\ bookingSave'.pc # "exists"

\* the step ends the insert of a Booking save
InsertEnds == bookingSave.pc = "insert" /\ bookingSave'.pc # "insert"

\* the Booking save is rejected and no Booking is persisted
BookingRejected ==
  /\ bookingSave'.pc = "idle"
  /\ bookingSave'.result = "rejected"
  /\ bookings' = bookings

\* the Booking save is rejected with the error of the database operation
\* that failed
DatabaseFailed ==
  /\ BookingRejected
  /\ bookingSave'.error \in {"Event.exists failed", "insert failed"}

\* C2 as stated: a Booking save whose eventId is not a persisted Event's when
\* the hook looks it up is rejected and inserts nothing; one with a valid
\* email and a persisted Event's eventId passes validation and the hook and
\* inserts the Booking; and every persisted Booking references a persisted
\* Event.
C2_ValidBookingAlwaysSaved ==
  /\ [](\A i \in 1..Len(bookings) : bookings[i]["eventId"] \in DOMAIN events)
  /\ [][StartChecked]_vars
  /\ [][QueryEnds
          => IF bookingSave.doc["eventId"] \in DOMAIN events
             THEN bookingSave'.pc = "insert" /\ bookings' = bookings
             ELSE BookingRejected]_vars
  /\ [][InsertEnds
          => /\ bookings' = Append(bookings, bookingSave.doc)
             /\ bookingSave'.result = "saved"]_vars
  /\ [][bookings' # bookings => bookingSave.pc = "insert"]_vars

\* C2, amended: a Booking save whose eventId is not a persisted Event's when
\* the hook looks it up is rejected and inserts nothing; one with a valid
\* email and a persisted Event's eventId inserts the Booking unless the
\* lookup or the insert itself fails in the database, and then the save is
\* rejected with that error and inserts nothing; and every persisted Booking
\* references a persisted Event.
C2_BookingNeedsEvent ==
  /\ [](\A i \in 1..Len(bookings) : bookings[i]["eventId"] \in DOMAIN events)
  /\ [][StartChecked]_vars
  /\ [][QueryEnds
          => IF bookingSave.doc["eventId"] \in DOMAIN events
             THEN \/ bookingSave'.pc = "insert" /\ bookings' = bookings
                  \/ DatabaseFailed /\ bookingSave'.error = "Event.exists failed"
             ELSE BookingRejected]_vars
  /\ [][InsertEnds
          => \/ /\ bookings' = Append(bookings, bookingSave.doc)
                /\ bookingSave'.result = "saved"
             \/ DatabaseFailed /\ bookingSave'.error = "insert failed"]_vars
  /\ [][bookings' # bookings => bookingSave.pc = "insert"]_vars

\* a Booking was saved, and a later save was rejected for its Event
C2_Witness ==
  /\ Len(bookings) > 0
  /\ bookingSave.pc = "idle"
  /\ bookingSave.result = "rejected"
  /\ bookingSave.error = "Cannot create booking: referenced event does not exist."

(***************************************************************************)
(* Properties of the Event collection, checked under Spec; C9 under        *)
(* SpecChecked.                                                            *)
(***************************************************************************)
\* the step is a save of an Event that was persisted
SavedStep == last'.op = "saveEvent" /\ last'.ok

\* C3: after any sequence of Event saves, every persisted Event's slug is
\* createSlug of its current title.
C3_SlugAlwaysDerivedFromTitle ==
  \A id \in DOMAIN events :
    events[id]["slug"] = createSlug(events[id]["title"])

\* C4: a save of an already persisted Event whose slug is not empty and
\* whose title is not modified leaves the Event's slug as it was; a save of
\* an Event whose title is modified or whose slug is absent leaves the Event
\* with the slug createSlug of its current title.
C4_SlugKeptOrRegenerated ==
  [][(SavedStep /\ last' # last) =>
       /\ (~last'.isNew /\ ~last'.titleModified /\ ~last'.slugFalsy)
            => events'[last'.id]["slug"] = events[last'.id]["slug"]
       /\ (last'.titleModified \/ last'.slugFalsy)
            => events'[last'.id]["slug"]
                 = createSlug(events'[last'.id]["title"])]_vars

\* no two persisted Events have the same slug
UniqueSlugs ==
  \A i \in DOMAIN events, j \in DOMAIN events :
    i # j => events[i]["slug"] # events[j]["slug"]

\* a save ends whose hook generated a slug that is, at the write, the slug of
\* another persisted Event
SlugTaken ==
  /\ last'.op = "saveEvent" /\ last'.hooked
  /\ last'.titleModified \/ last'.slugFalsy
  /\ last' # last
  /\ \E other \in DOMAIN events :
       other # last'.id /\ events[other]["slug"] = last'.hookSlug

\* the save is rejected with the duplicate-key error and the collection is
\* left as it was
RefusedAsDuplicate ==
  /\ ~last'.ok
  /\ last'.error = "E11000 duplicate key error"
  /\ events' = events

\* C8: no two persisted Events ever have the same slug, and every save whose
\* generated slug is the slug of another persisted Event is rejected with the
\* duplicate-key error and leaves the collection as it was.
C8_EveryTakenSlugRejected ==
  /\ []UniqueSlugs
  /\ [][SlugTaken => RefusedAsDuplicate]_vars

\* every character of the text is white space
Blank(text) == \A i \in 1..Len(text) : text[i] \in Whitespace

\* one of the eleven required string fields of the document is not a
\* string or is empty after trimming
RequiredFieldEmpty(doc) ==
  \E p \in {"title", "description", "overview", "image", "venue", "location",
            "date", "time", "mode", "audience", "organizer"} :
    p \notin DOMAIN doc \/ Blank(doc[p])

\* The date texts among the inputs that are not dates: month 13
\* ("2024-13-01"), "nope", a word outside ASCII after a number
\* ("5 \u00C0 6 2024") and a LINE SEPARATOR between two numbers, alone
\* ("5\u20286 2024") and after a space ("5 \u20286 2024").
RefusedDates ==
  {<<50, 48, 50, 52, 45, 49, 51, 45, 48, 49>>,
   <<110, 111, 112, 101>>,
   <<53, 32, 192, 32, 54, 32, 50, 48, 50, 52>>,
   <<53, 8232, 54, 32, 50, 48, 50, 52>>,
   <<53, 32, 8232, 54, 32, 50, 48, 50, 52>>}

\* the document's date was modified and is not a date
DateRefused(save) ==
  "date" \in save.modified /\ "date" \in DOMAIN save.doc
    /\ save.doc["date"] \in RefusedDates

\* the document's time was modified and is malformed or out of range
TimeRefused(save) ==
  "time" \in save.modified /\ "time" \in DOMAIN save.doc
    /\ ~TimeTextValid(save.doc["time"])

\* C9: a save of an Event with a required string field missing or blank, a
\* modified date that does not parse or a modified time that is malformed
\* or out of range is rejected, and the collection is left as it was.
C9_InvalidEventRejected ==
  [][(last'.op = "saveEvent" /\ last' # last
        /\ (RequiredFieldEmpty(last'.doc) \/ DateRefused(last')
              \/ TimeRefused(last')))
       => (~last'.ok /\ events' = events)]_vars

\* an update of a persisted Event was rejected for its date alone, a date
\* with a LINE SEPARATOR after a space
C9_Witness ==
  /\ last.op = "saveEvent" /\ ~last.isNew /\ ~last.ok
  /\ DateRefused(last)
  /\ last.doc["date"] = <<53, 32, 8232, 54, 32, 50, 48, 50, 52>>
  /\ ~TimeRefused(last) /\ ~RequiredFieldEmpty(last.doc)
  /\ last.id \in DOMAIN events

(***************************************************************************)
(* Properties of connectToDatabase, checked under SpecConn.                *)
(***************************************************************************)
\* C1: however the calls interleave, mongoose.connect is invoked at most
\* once, and exactly once as soon as one call has been made; every call that
\* is waiting waits for the promise of that one invocation.
C1_ConnectAtMostOnce ==
  /\ Len(attempts) <= 1
  /\ calls >= 1 => Len(attempts) = 1
  /\ \A c \in Callers : callers[c].pc = "awaiting" => callers[c].awaits = 1

\* two calls are waiting for the connection attempt at the same time
C1_Witness ==
  /\ Len(attempts) = 1
  /\ attempts[1] = "pending"
  /\ \E c \in Callers, d \in Callers :
       c # d /\ callers[c].pc = "awaiting" /\ callers[d].pc = "awaiting"

\* the connection attempt has failed
AttemptFailed == Len(attempts) >= 1 /\ attempts[1] = "rejected"

\* C10: once the connection attempt has failed, the failed promise stays
\* cached, cached.conn stays null, no other attempt is started, and no call
\* returns a connection: a call that ends, ends with that failure.
C10_FailureStaysCached ==
  AttemptFailed =>
    /\ cached.conn = Null
    /\ cached.promise = 1
    /\ Len(attempts) = 1
    /\ \A c \in Callers :
         /\ callers[c].pc # "returned"
         /\ callers[c].pc = "awaiting" => callers[c].awaits = 1
         /\ callers[c].pc = "threw" => callers[c].error = 1

\* a call made after the attempt had failed has been rejected, after an
\* earlier call was
C10_Witness ==
  /\ AttemptFailed
  /\ \E c \in Callers, d \in Callers :
       /\ c # d
       /\ callers[c].pc = "threw" /\ callers[c].late
       /\ callers[d].pc = "threw" /\ ~callers[d].late

(***************************************************************************)
(* Properties of EventDetailsPage, checked under SpecPage.                 *)
(***************************************************************************)
\* response.json() resolved
JsonResolved(p) == p.data.type # "undefined"

\* the response came with a status that is not OK
StatusNotOk(p) == p.status # 0 /\ p.status \notin 200..299

\* the payload has no event object
NoEventObject(p) ==
  JsonResolved(p) /\ (p.data.type # "object" \/ p.data.event.type # "object")

\* the event has no description
NoDescription(p) ==
  /\ JsonResolved(p)
  /\ p.data.type = "object"
  /\ p.data.event.type = "object"
  /\ p.data.event.description = "undefined"

\* C6 as claimed: the page ends in not-found when the fetch throws, the
\* status is not OK, be it 404 or another one, the body is not JSON, the
\* payload has no event object or the event has no description.
C6_EveryFailureIsNotFound ==
  \A r \in 1..MaxPageRequests :
    (page[r].pc = "done"
       /\ (page[r].fetchThrew \/ StatusNotOk(page[r]) \/ page[r].jsonThrew
             \/ NoEventObject(page[r]) \/ NoDescription(page[r])))
      => page[r].result = "notFound"

\* C6 as amended: the page ends in not-found when the fetch throws, the
\* status is 404, the body is not JSON, the payload has no event object or
\* the event has no description; with another status that is not OK the
\* failure is logged and the page says that the event is unavailable.
C6_FailureIsNotFoundOrUnavailable ==
  \A r \in 1..MaxPageRequests :
    page[r].pc = "done" =>
      /\ (page[r].fetchThrew \/ page[r].status = 404 \/ page[r].jsonThrew
            \/ NoEventObject(page[r]) \/ NoDescription(page[r]))
           => page[r].result = "notFound"
      /\ (StatusNotOk(page[r]) /\ page[r].status # 404)
           => /\ page[r].result = "unavailable"
              /\ page[r].logs = <<"Failed to fetch event">>

\* a response with status 500 ended in the page that says unavailable while
\* another request ended in not-found for a body that is not JSON
C6_Witness ==
  \E r \in 1..MaxPageRequests, q \in 1..MaxPageRequests :
    /\ page[r].pc = "done" /\ page[r].status = 500
    /\ page[r].result = "unavailable"
    /\ page[q].pc = "done" /\ page[q].jsonThrew /\ page[q].result = "notFound"

(***************************************************************************)
(* Properties of createSlug, checked under SpecSlug.                       *)
(***************************************************************************)
\* C5: createSlug of any title has only lowercase letters, digits and
\* dashes, no two dashes in a row, and no dash at its start or end.
C5_SlugShape ==
  (call.fn = "createSlug" /\ call.done) =>
    LET slug == call.ret.value
    IN  /\ \A i \in 1..Len(slug) : slug[i] \in LowerLetters \cup Digits \cup {45}
        /\ \A i \in 1..(Len(slug) - 1) : ~(slug[i] = 45 /\ slug[i + 1] = 45)
        /\ slug # <<>> => slug[1] # 45 /\ slug[Len(slug)] # 45

\* a title with the KELVIN SIGN, a dash, a carriage return and a digit came
\* out as two words joined by one dash
C5_Witness ==
  /\ call.fn = "createSlug" /\ call.done
  /\ call.arg = <<8490, 45, 13, 55>>
  /\ call.ret.value = <<107, 45, 55>>

(***************************************************************************)
(* Properties of normalizeTime, checked under SpecTime.                    *)
(***************************************************************************)
\* C7: normalizeTime fails for a text that, trimmed, is not one or two
\* digits, a colon and two digits, and for an hour above 23 or a minute above
\* 59; for any other text it returns hour and minute with two digits each.
C7_NormalizeTime ==
  (call.fn = "normalizeTime" /\ call.done) =>
    IF TimeTextValid(call.arg)
    THEN /\ call.ret.ok
         /\ \E h \in 0..23, m \in 0..59 :
              /\ IsTimeOf(Trim(call.arg), h, m)
              /\ call.ret.value = TwoDigits(h) \o <<58>> \o TwoDigits(m)
    ELSE ~call.ret.ok

\* 9:05 with a form feed before it came out as 09:05
C7_Witness ==
  /\ call.fn = "normalizeTime" /\ call.done
  /\ call.arg = <<12, 57, 58, 48, 53>>
  /\ call.ret = Returned(<<48, 57, 58, 48, 53>>)

====
